---- MODULE Spec2Model ----
(***************************************************************************)
(* Selection / caching / rotation subsystem of the random-character        *)
(* service: the usage ledger (used_characters.json), the response cache     *)
(* (last_response.json + last_call.json), the related-item snapshot files   *)
(* and the selector get_random_character that composes them.                *)
(*                                                                         *)
(* Time is counted in hours.  A file is a sequence of length 0 (absent),    *)
(* 1 (present, holding its parsed JSON document) or 2 (present, but cut     *)
(* short by a failed write, so that json.load raises on it).                *)
(***************************************************************************)
EXTENDS Integers, Sequences, FiniteSets, TLC

VARIABLES
    now,                 \* the wall clock read by datetime.now()
    ticks,               \* number of clock advances so far
    used_chars_file,     \* data/used_characters.json
    last_response_file,  \* data/last_response.json
    last_call_file,      \* data/last_call.json
    related_files,       \* data/{comics,stories,events,series}.json
    pc,                  \* position of each request in get_random_character
    loc,                 \* local variables of each request
    result,              \* what each finished request handed to its caller
    calls,               \* catalog calls issued by each request so far
    pre,                 \* the files as they were when each request started
    accepted,            \* per id, the times at which a selection recorded it
    putTime,             \* time of the last save_last_response
    origin,              \* per cache and snapshot file, the selection whose
                         \* write produced the document it holds
    faults,              \* number of local writes that have failed so far
    stats_file,          \* data/monitoring/api_stats.json
    alerts_file,         \* data/monitoring/alerts.json
    event,               \* arguments and outcome of the last log_request
    delivered            \* what the middleware handed to each client last

vars == <<now, ticks, used_chars_file, last_response_file, last_call_file,
          related_files, pc, loc, result, calls, pre, accepted, putTime,
          origin, faults, stats_file, alerts_file, event, delivered>>

mon == <<stats_file, alerts_file, event, delivered>>

files == <<used_chars_file, last_response_file, last_call_file, related_files>>

-----------------------------------------------------------------------------
(* Bounds of the model *)

MaxTicks == 3
CatalogSize == 3
LowTurns == 1
MaxFaults == 1
LowEvents == 3
MixedEvents == 11
ExtraEvents == 2
MaxRequests == 2
LowCycles == 1

(* Program constants *)

FreshnessHours == 24
DefaultMonths == 6
RetentionDays == 180
MaxAttempts == 50
MinCharacterId == 1000000
MaxCharacterId == 2000000
InternalErrorStatus == 500
UnavailableStatus == 503

\* The background task is followed until every entry recorded during the
\* first LowCycles days has outlived the retention, failed sweeps included.
MaxCycles == LowCycles + RetentionDays + 1 + MaxFaults

\* timedelta(days=d), in hours
Days(d) == 24 * d

\* The clock advances by the freshness window or by what is left of the
\* default cooldown after one freshness window.
TickSteps == {FreshnessHours, Days(30 * DefaultMonths) - FreshnessHours}

Procs == {"r1", "r2"}
SerialProcs == {"r1"}

-----------------------------------------------------------------------------
(* JSON conversions *)

\* str(character_id): the ledger's keys are strings
Str(i) == <<"str", i>>

\* datetime.isoformat() and datetime.fromisoformat()
Iso(t) == <<"iso", t>>
FromIso(s) == s[2]

\* A string datetime.fromisoformat() raises ValueError on
Malformed == <<"bad", 0>>
IsIso(s) == s[1] = "iso"

EmptyMap == [k \in {} |-> Iso(0)]
MapPut(m, k, v) == [x \in (DOMAIN m) \cup {k} |-> IF x = k THEN v ELSE m[x]]

Absent == << >>
Exists(f) == Len(f) > 0

\* What open(path, 'w') followed by a failing json.dump leaves behind
Torn == <<"torn", "torn">>
\* json.load(f) returns a document
Parses(f) == Len(f) = 1

-----------------------------------------------------------------------------
(* The remote catalog *)

\* The entity the catalog holds at an offset.  The last offset holds an id
\* below the range validate_character_id accepts.
CatalogId(off) ==
    IF off = CatalogSize - 1 THEN MinCharacterId - 1 ELSE MinCharacterId + off

CatalogIds == {CatalogId(off) : off \in 0..(CatalogSize - 1)}

\* data.total as answered to the count request
Totals == {0, 1, CatalogSize}

\* Status of an upstream answer; 0 stands for a transport failure (no answer).
UpstreamReplies == {200, 429, 0}

Categories == <<"comics", "stories", "events", "series">>
CategorySet == {Categories[i] : i \in 1..Len(Categories)}

\* Number of references the catalog lists per category of an entity
RefCount(id, cat) ==
    CASE cat = "comics" /\ id % 2 = 0 -> 2
      [] cat = "stories" /\ id % 2 = 1 -> 1
      [] OTHER -> 0

UpstreamDescription(id) == IF id % 2 = 0 THEN "" ELSE "text"

UpstreamRefs(id, cat) ==
    [k \in 1..RefCount(id, cat) |->
        [name |-> <<cat, id, k>>,
         type |-> "cover",
         resourceURI |-> [scheme |-> "http", path |-> <<cat, id, k>>]]]

\* url.replace('http://', 'https://')
Https(uri) == [uri EXCEPT !.scheme = "https"]

\* Outcome of resolving one reference: a full record, None, or a record
\* that lacks the keys the simplification reads.
RefOutcomes == {"ok", "none", "bad"}

-----------------------------------------------------------------------------
(* storage.py: the usage ledger *)

\* get_used_characters: the parsed file, or {} when the file is missing
\* or json.load raises
GetUsedCharacters(file) == IF Parses(file) THEN file[1] ELSE EmptyMap

\* What a read of the ledger file may do: succeed, or raise (open or read
\* fails although the file is intact)
ReadOutcomes == {"ok", "fail"}

\* get_used_characters with the outcome of its read: every exception is
\* caught and answered with {}
GetUsedCharactersRead(file, rd) ==
    IF rd = "ok" THEN GetUsedCharacters(file) ELSE EmptyMap

\* save_character_usage with the outcome of the read it starts with
SaveCharacterUsageRead(file, character_id, t, rd) ==
    << MapPut(GetUsedCharactersRead(file, rd), Str(character_id), Iso(t)) >>

\* Variant: the ledger is rebuilt from scratch instead of read back
SaveCharacterUsage_Fresh(file, character_id, t) ==
    << MapPut(EmptyMap, Str(character_id), Iso(t)) >>

\* save_character_usage: used_chars[str(id)] = now, then a full rewrite
SaveCharacterUsage(file, character_id, t) ==
    << MapPut(GetUsedCharacters(file), Str(character_id), Iso(t)) >>

\* Variant: the comparison is the wrong way round
IsCharacterRecentlyUsed_Reversed(file, character_id, months, t) ==
    LET used_chars == GetUsedCharacters(file) IN
    IF Str(character_id) \in DOMAIN used_chars
    THEN FromIso(used_chars[Str(character_id)]) < t - Days(30 * months)
    ELSE FALSE

\* is_character_recently_used has no try block: the ValueError of
\* datetime.fromisoformat on the candidate's entry reaches its caller.
IsCharacterRecentlyUsedRaises(file, character_id) ==
    LET used_chars == GetUsedCharacters(file) IN
    /\ Str(character_id) \in DOMAIN used_chars
    /\ ~IsIso(used_chars[Str(character_id)])

\* is_character_recently_used: last_used > now - timedelta(days=30 * months)
IsCharacterRecentlyUsed(file, character_id, months, t) ==
    LET used_chars == GetUsedCharacters(file) IN
    IF Str(character_id) \in DOMAIN used_chars
    THEN FromIso(used_chars[Str(character_id)]) > t - Days(30 * months)
    ELSE FALSE

\* cleanup_old_data parses every entry inside its try block: one entry
\* fromisoformat raises on ends the sweep before its write.
CleanupOldDataRaises(file) ==
    LET used_chars == GetUsedCharacters(file) IN
    \E c \in DOMAIN used_chars : ~IsIso(used_chars[c])

\* Variant: the retention is 30 days
CleanupOldData_Month(file, t) ==
    LET used_chars == GetUsedCharacters(file) IN
    << [k \in {c \in DOMAIN used_chars :
                  t - FromIso(used_chars[c]) <= Days(30)}
          |-> used_chars[k]] >>

\* Variant: an entry of exactly the retention age is dropped
CleanupOldData_Strict(file, t) ==
    LET used_chars == GetUsedCharacters(file) IN
    << [k \in {c \in DOMAIN used_chars :
                  t - FromIso(used_chars[c]) < Days(RetentionDays)}
          |-> used_chars[k]] >>

\* cleanup_old_data: keep the entries whose age is <= timedelta(days=180)
CleanupOldData(file, t) ==
    LET used_chars == GetUsedCharacters(file) IN
    << [k \in {c \in DOMAIN used_chars :
                  t - FromIso(used_chars[c]) <= Days(RetentionDays)}
          |-> used_chars[k]] >>

-----------------------------------------------------------------------------
(* storage.py: the response cache *)

\* Variant: only the entity of the envelope is stored
SaveLastResponseFile_DataOnly(response_data) == << response_data.data >>

\* save_last_response writes last_response.json ...
SaveLastResponseFile(response_data) == << response_data >>

\* ... and then stamps last_call.json
SaveLastCallFile(t) == << [last_call |-> Iso(t)] >>

\* Variant: a file json.load raises on is handed out as it is
GetLastResponse_Raw(file) == IF Exists(file) THEN file ELSE Absent

\* get_last_response: the parsed file, or None (the empty sequence) when
\* the file is missing or json.load raises
GetLastResponse(file) == IF Parses(file) THEN file ELSE Absent

\* Variant: every answer that is not None is returned
Truthy_NotNone(opt) == Len(opt) > 0

\* Python truthiness of an Optional[Dict]: None and {} are falsy
Truthy(opt) == Len(opt) > 0 /\ DOMAIN opt[1] # {}

\* Variant: a call of exactly the freshness age counts as stale
ShouldMakeNewCall_Ge(file, t) ==
    IF Parses(file)
    THEN t - FromIso(file[1].last_call) >= FreshnessHours
    ELSE TRUE

\* should_make_new_call: now - last_call > timedelta(hours=24); True when
\* the file is missing or reading it raises
ShouldMakeNewCall(file, t) ==
    IF Parses(file)
    THEN t - FromIso(file[1].last_call) > FreshnessHours
    ELSE TRUE

-----------------------------------------------------------------------------
(* storage.py: the related-item snapshot files *)

\* Variant: the previous files are left in place
DeletePreviousRelatedFiles_Keep(rf) == rf

\* _delete_previous_related_files
DeletePreviousRelatedFiles(rf) == [c \in CategorySet |-> Absent]

\* response.json()["data"]["results"][0] as _get_marvel_data returns it for
\* a reference that resolves; the catalog states no description.
MarvelData(ref) == [id |-> ref.resourceURI.path, title |-> ref.title]

\* data.get(key, default)
GetOr(data, key, default) == IF key \in DOMAIN data THEN data[key] ELSE default

\* The simplified record appended for one resolved reference
Simplified(cat, data) ==
    LET base == [id |-> data.id, title |-> data.title,
                 description |-> GetOr(data, "description", "No description available")]
    IN CASE cat = "comics" ->
              [item |-> base, issueNumber |-> GetOr(data, "issueNumber", 0)]
         [] cat = "stories" ->
              [item |-> base, type |-> GetOr(data, "type", "Unknown")]
         [] cat = "events" ->
              [item |-> base, start |-> GetOr(data, "start", "Unknown"),
               end |-> GetOr(data, "end", "Unknown")]
         [] cat = "series" ->
              [item |-> base, startYear |-> GetOr(data, "startYear", "None"),
               endYear |-> GetOr(data, "endYear", "None")]

\* Variant: a category without a resolved record gets no file
DetailedFile_NoEmpty(detailed, t) ==
    IF Len(detailed) = 0 THEN Absent
    ELSE << [saved_at |-> Iso(t), items |-> detailed] >>

\* The document _save_<category>_detailed writes
DetailedFile(detailed, t) == << [saved_at |-> Iso(t), items |-> detailed] >>

-----------------------------------------------------------------------------
(* main.py: helpers of the selector *)

\* Variant: the lower end of the range is excluded
ValidateCharacterId_Exclusive(character_id) ==
    MinCharacterId < character_id /\ character_id <= MaxCharacterId

\* validate_character_id
ValidateCharacterId(character_id) ==
    MinCharacterId <= character_id /\ character_id <= MaxCharacterId

\* The items of one category as get_character_details rewrites them
InfoItems(id, cat) ==
    LET refs == UpstreamRefs(id, cat) IN
    [k \in 1..Len(refs) |->
        IF cat = "stories"
        THEN [title |-> refs[k].name, type |-> refs[k].type,
              resourceURI |-> Https(refs[k].resourceURI)]
        ELSE [title |-> refs[k].name,
              resourceURI |-> Https(refs[k].resourceURI)]]

\* character_info built by get_character_details from the detail answer
CharacterInfo(id) ==
    [id |-> id,
     description |-> IF UpstreamDescription(id) = ""
                     THEN "No description available"
                     ELSE UpstreamDescription(id),
     comics |-> [available |-> RefCount(id, "comics"), items |-> InfoItems(id, "comics")],
     stories |-> [available |-> RefCount(id, "stories"), items |-> InfoItems(id, "stories")],
     events |-> [available |-> RefCount(id, "events"), items |-> InfoItems(id, "events")],
     series |-> [available |-> RefCount(id, "series"), items |-> InfoItems(id, "series")]]

\* final_response: the attribution fields plus the character info
FinalResponse(character_info) ==
    [attributionText |-> "attribution", data |-> character_info]

\* character_data.get(cat, {}).get('items', [])
ItemsOf(character_info, cat) ==
    CASE cat = "comics" -> character_info.comics.items
      [] cat = "stories" -> character_info.stories.items
      [] cat = "events" -> character_info.events.items
      [] cat = "series" -> character_info.series.items

\* Outcome of open(path, 'w') followed by json.dump: the document is
\* written, open raises and the file stays as it was, or json.dump raises
\* after open has truncated the file.
WriteOutcomes == {"ok", "fail", "torn"}
NoFailure == {"ok"}

\* Number of writes with the outcomes outs that did not succeed
RECURSIVE Failed(_)
Failed(outs) ==
    IF Len(outs) = 0 THEN 0
    ELSE (IF Head(outs) = "ok" THEN 0 ELSE 1) + Failed(Tail(outs))

Written(old, new, out) ==
    CASE out = "ok" -> new
      [] out = "fail" -> old
      [] out = "torn" -> Torn

\* save_related_items from category i on, up to its next await: a category
\* without references is written at once (an empty list), a category with
\* references waits for the answer to its first one.  cat = 0: all done.
\* outs[c] is the outcome of the write of category c.
RECURSIVE EnterCategory(_, _, _, _, _)
EnterCategory(rf, character_data, i, t, outs) ==
    IF i > Len(Categories)
    THEN [related |-> rf, cat |-> 0]
    ELSE LET c == Categories[i] IN
         IF Len(ItemsOf(character_data, c)) = 0
         THEN EnterCategory(
                 [rf EXCEPT ![c] = Written(@, DetailedFile(<< >>, t), outs[c])],
                 character_data, i + 1, t, outs)
         ELSE [related |-> rf, cat |-> i]

\* The categories EnterCategory writes from category i on
RECURSIVE DueFrom(_, _)
DueFrom(character_data, i) ==
    IF i > Len(Categories) THEN {}
    ELSE IF Len(ItemsOf(character_data, Categories[i])) = 0
         THEN {Categories[i]} \cup DueFrom(character_data, i + 1)
         ELSE {}

\* The except clause closing get_random_character: whatever was raised,
\* an HTTPException included, leaves as HTTPException(status_code=500).
HandlerExcept(cause, raised) ==
    [outcome |-> "error", status |-> InternalErrorStatus, cause |-> cause,
     raised |-> raised, body |-> Absent]

Returned(outcome, body) ==
    [outcome |-> outcome, status |-> 200, cause |-> "none", raised |-> 200,
     body |-> << body >>]

NoResult ==
    [outcome |-> "none", status |-> 0, cause |-> "none", raised |-> 0,
     body |-> Absent]

-----------------------------------------------------------------------------
(* monitoring.py: the request statistics and the alerts *)

ErrorRatePercent == 10
RateLimitThreshold == 2000
MaxErrors == 100
MaxAlerts == 100

\* now.strftime("%Y-%m-%d"): the key of a day's bucket
Today(t) == <<"day", t \div 24>>

\* s[-n:]
LastN(s, n) == IF Len(s) <= n THEN s ELSE SubSeq(s, Len(s) - n + 1, Len(s))

EmptyCounts == [k \in {} |-> 0]

\* The document _init_stats writes when the statistics file is missing
InitialStats(t) ==
    [total_requests |-> 0, successful_requests |-> 0, failed_requests |-> 0,
     average_response_time |-> 0, characters_used |-> 0,
     last_cleanup |-> Iso(t), rate_limit_hits |-> 0,
     most_requested_characters |-> EmptyCounts,
     daily_requests |-> EmptyCounts, errors |-> << >>]

\* _init_stats: writes the initial document only when no file exists (out is
\* the outcome of that write) and returns None in every case
InitStats(file, t, out) ==
    IF Exists(file) THEN file ELSE Written(file, << InitialStats(t) >>, out)

\* `if character_id and success`: None and 0 are falsy
\* Variant: the histogram counts every request that carries an id
CountsCharacter_AnyOutcome(character_id, success) ==
    Len(character_id) > 0 /\ character_id[1] # 0

CountsCharacter(character_id, success) ==
    Len(character_id) > 0 /\ character_id[1] # 0 /\ success

\* The body of log_request between get_stats and save_stats.  Response
\* times are taken as 0, so the running average stays 0.
Counted(stats, character_id, response_time, success, error, t) ==
    LET total == stats.total_requests + 1
        key == Str(character_id[1])
    IN [stats EXCEPT
          !.total_requests = total,
          !.successful_requests = IF success THEN @ + 1 ELSE @,
          !.failed_requests = IF success THEN @ ELSE @ + 1,
          !.errors = IF success THEN @
                     ELSE LastN(Append(@, [timestamp |-> Iso(t),
                                           error |-> error]), MaxErrors),
          !.average_response_time = (@ * (total - 1) + response_time) \div total,
          !.daily_requests = MapPut(@, Today(t), GetOr(@, Today(t), 0) + 1),
          !.most_requested_characters =
              IF CountsCharacter(character_id, success)
              THEN MapPut(@, key, GetOr(@, key, 0) + 1)
              ELSE @]

\* error_rate > 0.1, with error_rate = failed / total when total > 0, else 0
\* Variant: the threshold itself raises the alert
ErrorRateHigh_Ge(stats) ==
    /\ stats.total_requests > 0
    /\ 100 * stats.failed_requests >= ErrorRatePercent * stats.total_requests

ErrorRateHigh(stats) ==
    /\ stats.total_requests > 0
    /\ 100 * stats.failed_requests > ErrorRatePercent * stats.total_requests

\* stats["daily_requests"].get(today, 0) > 2000
\* Variant: any day's bucket raises the alert
RateLimitNear_AnyDay(stats, t) ==
    \E d \in DOMAIN stats.daily_requests :
       stats.daily_requests[d] > RateLimitThreshold

RateLimitNear(stats, t) ==
    GetOr(stats.daily_requests, Today(t), 0) > RateLimitThreshold

ErrorRateAlert(t) ==
    [timestamp |-> Iso(t), type |-> "ERROR_RATE",
     message |-> "High error rate detected"]
RateLimitAlert(t) ==
    [timestamp |-> Iso(t), type |-> "RATE_LIMIT",
     message |-> "Approaching daily rate limit"]

\* _check_alerts: the alerts the statistics raise, in the order of the code
CheckAlerts(stats, t) ==
    (IF ErrorRateHigh(stats) THEN << ErrorRateAlert(t) >> ELSE << >>) \o
    (IF RateLimitNear(stats, t) THEN << RateLimitAlert(t) >> ELSE << >>)

\* (existing_alerts + alerts)[-100:]
\* Variant: the first hundred entries are kept
KeptAlerts_Oldest(existing_alerts, alerts) ==
    SubSeq(existing_alerts \o alerts, 1,
           IF Len(existing_alerts \o alerts) <= MaxAlerts
           THEN Len(existing_alerts \o alerts) ELSE MaxAlerts)

KeptAlerts(existing_alerts, alerts) ==
    LastN(existing_alerts \o alerts, MaxAlerts)

\* _save_alerts, called when alerts is not empty: every exception of the
\* read and of the write is logged and swallowed
SaveAlerts(file, alerts, out) ==
    IF Len(alerts) = 0 \/ (Exists(file) /\ ~Parses(file))
    THEN file
    ELSE Written(file,
                 << KeptAlerts(IF Exists(file) THEN file[1] ELSE << >>,
                               alerts) >>,
                 out)

\* log_request on the files sf (statistics) and af (alerts); ws and wa are
\* the outcomes of the write of either file.  get_stats answers a file it
\* cannot read with the value of _init_stats(), which is None, so the first
\* subscript raises TypeError; save_stats lets the exception of a failed
\* write through.
LogRequest(sf, af, character_id, response_time, success, error, t, ws, wa) ==
    IF ~Parses(sf)
    THEN [stats_file |-> InitStats(sf, t, ws), alerts_file |-> af,
          alerts |-> << >>, raised |-> TRUE]
    ELSE LET stats == Counted(sf[1], character_id, response_time, success,
                              error, t)
         IN IF ws # "ok"
            THEN [stats_file |-> Written(sf, << stats >>, ws),
                  alerts_file |-> af, alerts |-> << >>, raised |-> TRUE]
            ELSE [stats_file |-> << stats >>,
                  alerts_file |-> SaveAlerts(af, CheckAlerts(stats, t), wa),
                  alerts |-> CheckAlerts(stats, t), raised |-> FALSE]

BucketDays == 30
ErrorDays == 7

\* datetime.fromisoformat(error["timestamp"]) > today - timedelta(days=7)
KeepsError(error, t) == FromIso(error.timestamp) > t - Days(ErrorDays)

\* date >= cutoff_date, both "%Y-%m-%d" strings, which order as their days
KeepsBucket(date, t) == date[2] >= Today(t - Days(BucketDays))[2]

\* The selection of the entries of a list that KeepsError lets through
RECURSIVE KeptErrors(_, _)
KeptErrors(errors, t) ==
    IF Len(errors) = 0 THEN << >>
    ELSE (IF KeepsError(Head(errors), t) THEN << Head(errors) >> ELSE << >>)
         \o KeptErrors(Tail(errors), t)

\* The body of the monitor's cleanup_old_data between get_stats and
\* save_stats
CleanedStats(stats, t) ==
    [stats EXCEPT
       !.daily_requests =
           [date \in {d \in DOMAIN @ : KeepsBucket(d, t)} |-> @[date]],
       !.errors = KeptErrors(@, t),
       !.last_cleanup = Iso(t)]

\* The monitor's cleanup_old_data on the statistics file: one try block
\* whose except clause logs; a file get_stats cannot read makes it work on
\* None and raise at the first subscript.
MonitorCleanupOldData(file, t, out) ==
    IF ~Parses(file)
    THEN IF Exists(file) THEN file
         ELSE Written(file, << InitialStats(t) >>, out)
    ELSE Written(file, << CleanedStats(file[1], t) >>, out)

\* The writes a call of log_request gets to
StatsWriteDue(sf) == ~Exists(sf) \/ Parses(sf)
AlertsWriteDue(sf, af, character_id, response_time, success, error, t) ==
    /\ Parses(sf)
    /\ Len(CheckAlerts(Counted(sf[1], character_id, response_time, success,
                               error, t), t)) > 0
    /\ ~(Exists(af) /\ ~Parses(af))

\* alerts: what _check_alerts handed to _save_alerts
NoEvent == [character_id |-> Absent, success |-> FALSE, alerts |-> << >>,
            raised |-> FALSE]

-----------------------------------------------------------------------------
(* State after construction: the data directory exists and holds no file *)

NoCalls == [count |-> 0, page |-> 0, detail |-> 0, ref |-> 0]
\* resolved: the references <<category, k>> the request has resolved to a
\* record; written: the cache and ledger files its writes have replaced;
\* put: the selection the request committed; read: the snapshot it asked for.
NoLocals == [total |-> 0, attempts |-> 0, offset |-> 0, character_id |-> 0,
             final |-> Absent, cat |-> 0, k |-> 0, detailed |-> << >>,
             raised_cats |-> {}, resolved |-> {}, written |-> {},
             put |-> Absent, read |-> "none"]
NoOrigin == [response |-> Absent, call |-> Absent,
             related |-> [c \in CategorySet |-> Absent]]
Snapshot == [ledger |-> used_chars_file, response |-> last_response_file,
             call |-> last_call_file, related |-> related_files]
NoSnapshot == [ledger |-> Absent, response |-> Absent, call |-> Absent,
               related |-> [c \in CategorySet |-> Absent]]

Init ==
    /\ now = 0
    /\ ticks = 0
    /\ used_chars_file = Absent
    /\ last_response_file = Absent
    /\ last_call_file = Absent
    /\ related_files = [c \in CategorySet |-> Absent]
    /\ pc = [p \in Procs |-> "idle"]
    /\ loc = [p \in Procs |-> NoLocals]
    /\ result = [p \in Procs |-> NoResult]
    /\ calls = [p \in Procs |-> NoCalls]
    /\ pre = [p \in Procs |-> NoSnapshot]
    /\ accepted = [id \in CatalogIds |-> << >>]
    /\ putTime = Absent
    /\ origin = NoOrigin
    /\ faults = 0
    /\ stats_file = << InitialStats(0) >>
    /\ alerts_file = Absent
    /\ event = NoEvent
    /\ delivered = [p \in Procs |-> Absent]

AllIdle == \A p \in Procs : pc[p] = "idle"

-----------------------------------------------------------------------------
(* The environment: the clock *)

Tick ==
    /\ AllIdle
    /\ ticks < MaxTicks
    /\ \E d \in TickSteps : now' = now + d
    /\ ticks' = ticks + 1
    /\ UNCHANGED <<mon, files, pc, loc, result, calls, pre, accepted, putTime,
                   origin, faults>>

(* schedule_cleanup: the daily sweep of the ledger; W holds the outcomes
   its write may have *)

Cleanup(W) ==
    /\ AllIdle
    /\ IF CleanupOldDataRaises(used_chars_file)
       THEN UNCHANGED <<used_chars_file, faults>>
       ELSE \E out \in W :
               /\ faults' = faults + Failed(<<out>>)
               /\ faults' <= MaxFaults
               /\ used_chars_file' =
                     Written(used_chars_file,
                             CleanupOldData(used_chars_file, now), out)
    /\ UNCHANGED <<mon, now, ticks, last_response_file, last_call_file,
                   related_files, pc, loc, result, calls, pre, accepted,
                   putTime, origin>>

-----------------------------------------------------------------------------
(* get_random_character, one action per stretch between two awaits *)

\* Variant: a request the catalog fails is issued again
Fail_Retry(p, cause, raised) ==
    IF cause = "upstream"
    THEN UNCHANGED <<pc, result>>
    ELSE /\ pc' = [pc EXCEPT ![p] = "done"]
         /\ result' = [result EXCEPT ![p] = HandlerExcept(cause, raised)]

Fail(p, cause, raised) ==
    /\ pc' = [pc EXCEPT ![p] = "done"]
    /\ result' = [result EXCEPT ![p] = HandlerExcept(cause, raised)]

\* The cache check: a fresh cache with a non-empty answer is returned as is.
Start(p) ==
    /\ pc[p] = "idle"
    /\ pre' = [pre EXCEPT ![p] = Snapshot]
    /\ calls' = [calls EXCEPT ![p] = NoCalls]
    /\ LET cached_response == GetLastResponse(last_response_file) IN
       IF ~ShouldMakeNewCall(last_call_file, now) /\ Truthy(cached_response)
       THEN /\ pc' = [pc EXCEPT ![p] = "done"]
            /\ result' = [result EXCEPT ![p] = Returned("cached", cached_response[1])]
       ELSE /\ pc' = [pc EXCEPT ![p] = "total"]
            /\ UNCHANGED result
    /\ UNCHANGED <<mon, now, ticks, files, loc, accepted, putTime, origin, faults>>

\* get_total_characters answers; random.randint(0, total - 1) raises on an
\* empty range.
GetTotal(p) ==
    /\ pc[p] = "total"
    /\ calls' = [calls EXCEPT ![p].count = @ + 1]
    /\ \E reply \in UpstreamReplies :
          IF reply # 200
          THEN /\ Fail(p, "upstream", reply)
               /\ UNCHANGED loc
          ELSE \E total \in Totals :
                  IF total = 0
                  THEN /\ Fail(p, "internal", InternalErrorStatus)
                       /\ UNCHANGED loc
                  ELSE /\ loc' = [loc EXCEPT ![p].total = total]
                       /\ pc' = [pc EXCEPT ![p] = "page"]
                       /\ UNCHANGED result
    /\ UNCHANGED <<mon, now, ticks, files, pre, accepted, putTime, origin,
                   faults>>

\* Variant: the loop runs one turn too many
WhileCondition_Le(attempts) == attempts <= MaxAttempts

\* while attempts < max_attempts
WhileCondition(attempts) == attempts < MaxAttempts

\* The random source: the first LowTurns draws of a request and its last
\* possible draw are arbitrary, every other draw repeats the one before it.
FreeTurn(n) == n < LowTurns \/ n = MaxAttempts - 1

\* One turn of the retry loop: draw an offset, fetch the page, check the
\* cooldown of the candidate; an accepted candidate is validated by
\* get_character_details before its detail request is issued.  A ledger
\* entry the check cannot parse raises out of the loop.
FetchPage(p) ==
    /\ pc[p] = "page"
    /\ WhileCondition(loc[p].attempts)
    /\ calls' = [calls EXCEPT ![p].page = @ + 1]
    /\ \E offset \in 0..(loc[p].total - 1), reply \in UpstreamReplies :
          /\ FreeTurn(loc[p].attempts) \/ offset = loc[p].offset
          /\ IF reply # 200
             THEN /\ Fail(p, "upstream", reply)
                  /\ loc' = [loc EXCEPT ![p].offset = offset]
             ELSE LET character_id == CatalogId(offset) IN
                  IF IsCharacterRecentlyUsedRaises(used_chars_file, character_id)
                  THEN /\ Fail(p, "ledger", InternalErrorStatus)
                       /\ loc' = [loc EXCEPT ![p].offset = offset,
                                             ![p].character_id = character_id]
                  ELSE
                  IF ~IsCharacterRecentlyUsed(used_chars_file, character_id,
                                              DefaultMonths, now)
                  THEN /\ loc' = [loc EXCEPT ![p].offset = offset,
                                             ![p].character_id = character_id]
                       /\ IF ~ValidateCharacterId(character_id)
                          THEN Fail(p, "validation", InternalErrorStatus)
                          ELSE /\ pc' = [pc EXCEPT ![p] = "detail"]
                               /\ UNCHANGED result
                  ELSE /\ loc' = [loc EXCEPT ![p].offset = offset,
                                             ![p].character_id = character_id,
                                             ![p].attempts = @ + 1]
                       /\ IF WhileCondition(loc[p].attempts + 1)
                          THEN UNCHANGED <<pc, result>>
                          ELSE Fail(p, "exhausted", UnavailableStatus)
    /\ UNCHANGED <<mon, now, ticks, files, pre, accepted, putTime, origin,
                   faults>>

\* Where save_related_items stands after the files rf have been written up
\* to category i - 1: at the await of the first reference of a later
\* category, or at the return of the envelope.  org is the origin of the
\* files rf, failed the number of writes the caller has seen fail.
Continue(p, rf, org, failed, i, lc, W) ==
    LET due == DueFrom(lc.final[1].data, i) IN
    \E outs \in [due -> W] :
       LET r == EnterCategory(rf, lc.final[1].data, i, now, outs) IN
       /\ faults + failed + Cardinality({c \in due : outs[c] # "ok"})
             <= MaxFaults
       /\ faults' = faults + failed
                       + Cardinality({c \in due : outs[c] # "ok"})
       /\ related_files' = r.related
       /\ origin' = [org EXCEPT !.related =
                        [c \in CategorySet |->
                            IF c \in due /\ outs[c] = "ok" THEN lc.put
                            ELSE IF Parses(r.related[c]) THEN @[c]
                            ELSE Absent]]
       /\ loc' = [loc EXCEPT ![p] = [lc EXCEPT !.cat = r.cat, !.k = 1,
                                              !.detailed = << >>]]
       /\ IF r.cat = 0
          THEN /\ pc' = [pc EXCEPT ![p] = "done"]
               /\ result' = [result EXCEPT ![p] = Returned("fresh", lc.final[1])]
          ELSE /\ pc' = [pc EXCEPT ![p] = "related"]
               /\ UNCHANGED result

\* The record of acceptances is kept up to this length.
MaxAccepted == MaxTicks

\* The detail request answers: build the envelope, record the usage, store
\* the response and its timestamp, delete the previous snapshot files and
\* start resolving the related items.  save_last_response writes the
\* answer first and the timestamp second inside one try block: when the
\* first write raises the second is not attempted.
FetchDetail(p, W) ==
    /\ pc[p] = "detail"
    /\ calls' = [calls EXCEPT ![p].detail = @ + 1]
    /\ \E reply \in UpstreamReplies :
          IF reply # 200
          THEN /\ Fail(p, "upstream", reply)
               /\ UNCHANGED <<loc, files, accepted, putTime, origin, faults>>
          ELSE \E wl \in W, wr \in W, wc \in W :
               LET character_id == loc[p].character_id
                   final_response == FinalResponse(CharacterInfo(character_id))
                   put == << [by |-> p, id |-> character_id, at |-> now] >>
                   stamped == wr = "ok"
                   response == Written(last_response_file,
                                       SaveLastResponseFile(final_response), wr)
                   call == IF stamped
                           THEN Written(last_call_file, SaveLastCallFile(now), wc)
                           ELSE last_call_file
               IN /\ stamped \/ wc = "ok"
                  /\ faults + Failed(<<wl, wr, wc>>) <= MaxFaults
                  /\ used_chars_file' =
                        Written(used_chars_file,
                                SaveCharacterUsage(used_chars_file, character_id, now),
                                wl)
                  /\ last_response_file' = response
                  /\ last_call_file' = call
                  /\ accepted' = [accepted EXCEPT ![character_id] =
                                     IF Len(@) < MaxAccepted THEN Append(@, now)
                                     ELSE @]
                  /\ putTime' = << now >>
                  /\ Continue(p, DeletePreviousRelatedFiles(related_files),
                              [response |-> IF wr = "ok" THEN put
                                            ELSE IF Parses(response)
                                            THEN origin.response ELSE Absent,
                               call |-> IF stamped /\ wc = "ok" THEN put
                                        ELSE IF Parses(call)
                                        THEN origin.call ELSE Absent,
                               related |-> [c \in CategorySet |-> Absent]],
                              Failed(IF stamped THEN <<wl, wr, wc>>
                                     ELSE <<wl, wr>>),
                              1,
                              [loc[p] EXCEPT
                                  !.final = << final_response >>,
                                  !.put = put,
                                  !.written =
                                      {f \in {"ledger"} : wl = "ok"}
                                      \cup {f \in {"response"} : wr = "ok"}
                                      \cup {f \in {"call"} : stamped /\ wc = "ok"}],
                              W)
    /\ UNCHANGED <<mon, now, ticks, pre>>

\* _get_marvel_data answers for reference k of the current category: a
\* resolved record is simplified and appended, None is skipped, a record
\* without the keys read raises and ends the category without a file.
\* After the last reference the category's file is written.
ResolveRef(p, W) ==
    /\ pc[p] = "related"
    /\ calls' = [calls EXCEPT ![p].ref = @ + 1]
    /\ LET i == loc[p].cat
           cat == Categories[i]
           refs == ItemsOf(loc[p].final[1].data, cat)
           ref == refs[loc[p].k]
       IN \E out \in RefOutcomes :
             IF out = "bad"
             THEN Continue(p, related_files, origin, 0, i + 1,
                           [loc[p] EXCEPT !.raised_cats = @ \cup {cat}], W)
             ELSE LET detailed == IF out = "ok"
                                  THEN Append(loc[p].detailed,
                                              Simplified(cat, MarvelData(ref)))
                                  ELSE loc[p].detailed
                      resolved == IF out = "ok"
                                  THEN loc[p].resolved \cup {<<cat, loc[p].k>>}
                                  ELSE loc[p].resolved
                  IN IF loc[p].k < Len(refs)
                     THEN /\ loc' = [loc EXCEPT ![p].k = @ + 1,
                                                ![p].detailed = detailed,
                                                ![p].resolved = resolved]
                          /\ UNCHANGED <<related_files, pc, result, origin,
                                         faults>>
                     ELSE \E w \in W :
                          /\ faults + Failed(<<w>>) <= MaxFaults
                          /\ Continue(p,
                                   [related_files EXCEPT ![cat] =
                                       Written(@, DetailedFile(detailed, now), w)],
                                   [origin EXCEPT !.related[cat] =
                                       IF w = "ok" THEN loc[p].put ELSE @],
                                   Failed(<<w>>), i + 1,
                                   [loc[p] EXCEPT !.resolved = resolved], W)
    /\ UNCHANGED <<mon, now, ticks, used_chars_file, last_response_file,
                   last_call_file, pre, accepted, putTime>>

\* What is left of a request whose task was cancelled at an await:
\* CancelledError is no Exception, so no except clause of the handler runs.
Cancelled ==
    [outcome |-> "cancelled", status |-> 0, cause |-> "cancelled",
     raised |-> 0, body |-> Absent]

\* The request is cancelled while it waits for the catalog's answer to its
\* count, page or detail request.
Cancel(p) ==
    /\ pc[p] \in {"total", "page", "detail"}
    /\ pc' = [pc EXCEPT ![p] = "done"]
    /\ result' = [result EXCEPT ![p] = Cancelled]
    /\ UNCHANGED <<mon, now, ticks, files, loc, calls, pre, accepted, putTime,
                   origin, faults>>

\* The response has been delivered; the request's frame is gone.
Finish(p) ==
    /\ pc[p] = "done"
    /\ pc' = [pc EXCEPT ![p] = "idle"]
    /\ loc' = [loc EXCEPT ![p] = NoLocals]
    /\ result' = [result EXCEPT ![p] = NoResult]
    /\ calls' = [calls EXCEPT ![p] = NoCalls]
    /\ pre' = [pre EXCEPT ![p] = NoSnapshot]
    /\ UNCHANGED <<mon, now, ticks, files, accepted, putTime, origin, faults>>

-----------------------------------------------------------------------------
(* The snapshot read endpoints; none of them awaits *)

\* get_related_items: one try block around the four reads, so the first
\* file json.load raises on makes the whole answer {}.
EmptyItems == [c \in {} |-> << >>]

\* Variant: a file that cannot be read is left out on its own
GetRelatedItems_PerCategory(rf) ==
    [c \in {d \in CategorySet : Parses(rf[d])} |-> rf[c][1].items]

GetRelatedItems(rf) ==
    IF \E c \in CategorySet : Exists(rf[c]) /\ ~Parses(rf[c])
    THEN EmptyItems
    ELSE [c \in {d \in CategorySet : Exists(rf[d])} |-> rf[c][1].items]

\* What a handler's own HTTPException(404) becomes: it is raised inside
\* the try block whose except clause answers 500 for every exception.
NotFoundRaised == 404

\* get_saved_comics, get_saved_stories, get_saved_events, get_saved_series
GetSaved(file) ==
    IF Exists(file)
    THEN IF Parses(file)
         THEN Returned("snapshot", file[1])
         ELSE HandlerExcept("unreadable", InternalErrorStatus)
    ELSE HandlerExcept("not_found", NotFoundRaised)

\* get_all_saved_related: an empty mapping is falsy
GetAllSavedRelated(rf, t) ==
    LET related_items == GetRelatedItems(rf) IN
    IF DOMAIN related_items # {}
    THEN Returned("snapshots", [saved_at |-> Iso(t), data |-> related_items])
    ELSE HandlerExcept("not_found", NotFoundRaised)

ReadCategory(p) ==
    /\ pc[p] = "idle"
    /\ \E c \in CategorySet :
          /\ loc' = [loc EXCEPT ![p].read = c]
          /\ result' = [result EXCEPT ![p] = GetSaved(related_files[c])]
    /\ pc' = [pc EXCEPT ![p] = "done"]
    /\ UNCHANGED <<mon, now, ticks, files, calls, pre, accepted, putTime, origin,
                   faults>>

ReadAll(p) ==
    /\ pc[p] = "idle"
    /\ loc' = [loc EXCEPT ![p].read = "all"]
    /\ result' = [result EXCEPT ![p] = GetAllSavedRelated(related_files, now)]
    /\ pc' = [pc EXCEPT ![p] = "done"]
    /\ UNCHANGED <<mon, now, ticks, files, calls, pre, accepted, putTime, origin,
                   faults>>

-----------------------------------------------------------------------------
(* The monitor *)

\* The ids log_request is called with, and no id at all
CharacterIds == {Absent} \cup {<< CatalogId(o) >> : o \in {0, 1}}

\* The traffic the monitor is driven with: any event among the first
\* LowEvents; up to MixedEvents events of either outcome without an id on
\* the first day; after them only runs of like events (successes up to the
\* rate limit threshold, failures up to the capacity of the alert list),
\* and ExtraEvents events past either.
InTraffic(stats, character_id, success) ==
    \/ stats.total_requests < LowEvents
    \/ /\ character_id = Absent
       /\ DOMAIN stats.most_requested_characters = {}
       /\ \/ ticks = 0 /\ stats.total_requests < MixedEvents
          \/ /\ success
             /\ stats.successful_requests = stats.total_requests
             /\ stats.total_requests < RateLimitThreshold + ExtraEvents
             /\ ticks = 0 \/ stats.total_requests >= RateLimitThreshold
          \/ /\ ~success
             /\ stats.failed_requests = stats.total_requests
             /\ stats.total_requests < MaxAlerts + ExtraEvents
             /\ ticks = 0 \/ stats.total_requests >= MaxAlerts

\* The clock advances between runs only
BetweenRuns ==
    /\ Parses(stats_file)
    /\ \/ stats_file[1].total_requests < LowEvents
       \/ stats_file[1].total_requests >= RateLimitThreshold
       \/ /\ stats_file[1].failed_requests = stats_file[1].total_requests
          /\ stats_file[1].total_requests >= MaxAlerts

\* monitor.log_request(character_id, response_time, success) called on its
\* own; W holds the outcomes its writes may have
RecordEvent(W) ==
    /\ Parses(stats_file)
    /\ \E character_id \in CharacterIds, success \in BOOLEAN, ws, wa \in W :
          LET done == LogRequest(stats_file, alerts_file, character_id, 0,
                                 success, "none", now, ws, wa)
          IN /\ InTraffic(stats_file[1], character_id, success)
             /\ stats_file' = done.stats_file
             /\ alerts_file' = done.alerts_file
             /\ event' = [character_id |-> character_id,
                          success |-> success, alerts |-> done.alerts,
                          raised |-> done.raised]
             /\ faults' = faults + Failed(<<ws, wa>>)
             /\ faults' <= MaxFaults
    /\ UNCHANGED <<now, ticks, files, pc, loc, result, calls, pre, accepted,
                   putTime, origin, delivered>>

\* The outcomes of writes log_request does not get to are not drawn
WritesDrawn(sf, af, character_id, success, error, t, ws, wa) ==
    /\ StatsWriteDue(sf) \/ ws = "ok"
    /\ \/ ws = "ok" /\ AlertsWriteDue(sf, af, character_id, 0, success,
                                      error, t)
       \/ wa = "ok"

\* JSONResponse(status_code=500, content={"detail": "Internal server error"})
DispatchExcept ==
    [outcome |-> "error", status |-> InternalErrorStatus, cause |-> "logging",
     raised |-> InternalErrorStatus, body |-> Absent]

\* What the server answers when an exception leaves dispatch
Unhandled ==
    [outcome |-> "error", status |-> InternalErrorStatus,
     cause |-> "unhandled", raised |-> InternalErrorStatus, body |-> Absent]

\* RequestLoggingMiddleware.dispatch once the handler has answered: the
\* response has no body() to call, so character_id stays None; the first
\* log_request stands inside the try block, the second in its except
\* clause.  The request's frame is gone afterwards.
Dispatch(p, W) ==
    /\ pc[p] = "done"
    /\ \E ws1, wa1, ws2, wa2 \in W :
          LET response == result[p]
              first == LogRequest(stats_file, alerts_file, Absent, 0,
                                  response.status < 400, "none", now,
                                  ws1, wa1)
              second == LogRequest(first.stats_file, first.alerts_file,
                                   Absent, 0, FALSE, "raised", now, ws2, wa2)
              last == IF first.raised THEN second ELSE first
          IN /\ WritesDrawn(stats_file, alerts_file, Absent,
                            response.status < 400, "none", now, ws1, wa1)
             /\ IF first.raised
                THEN WritesDrawn(first.stats_file, first.alerts_file, Absent,
                                 FALSE, "raised", now, ws2, wa2)
                ELSE ws2 = "ok" /\ wa2 = "ok"
             /\ faults' = faults + Failed(<<ws1, wa1, ws2, wa2>>)
             /\ faults' <= MaxFaults
             /\ stats_file' = last.stats_file
             /\ alerts_file' = last.alerts_file
             /\ event' = [character_id |-> Absent,
                          success |-> ~first.raised /\ response.status < 400,
                          alerts |-> last.alerts, raised |-> last.raised]
             /\ delivered' =
                   [delivered EXCEPT ![p] =
                       << IF ~first.raised THEN response
                          ELSE IF second.raised THEN Unhandled
                          ELSE DispatchExcept >>]
    /\ pc' = [pc EXCEPT ![p] = "idle"]
    /\ loc' = [loc EXCEPT ![p] = NoLocals]
    /\ result' = [result EXCEPT ![p] = NoResult]
    /\ calls' = [calls EXCEPT ![p] = NoCalls]
    /\ pre' = [pre EXCEPT ![p] = NoSnapshot]
    /\ UNCHANGED <<now, ticks, files, accepted, putTime, origin>>

\* At most MaxRequests requests are served
UnderCap == Parses(stats_file) => stats_file[1].total_requests < MaxRequests

-----------------------------------------------------------------------------
(* schedule_cleanup: the background task *)

SleepHours == 24

\* Variant: a write that fails ends the task
CleanupTask_Dies(W) ==
    /\ ticks < MaxCycles
    /\ faults = 0
    /\ now' = now + SleepHours
    /\ ticks' = ticks + 1
    /\ \E wl \in W, ws \in W :
          /\ ~CleanupOldDataRaises(used_chars_file) \/ wl = "ok"
          /\ StatsWriteDue(stats_file) \/ ws = "ok"
          /\ faults' = faults + Failed(<<wl, ws>>)
          /\ faults' <= MaxFaults
          /\ used_chars_file' =
                IF CleanupOldDataRaises(used_chars_file)
                THEN used_chars_file
                ELSE Written(used_chars_file,
                             CleanupOldData(used_chars_file, now + SleepHours),
                             wl)
          /\ stats_file' =
                MonitorCleanupOldData(stats_file, now + SleepHours, ws)
    /\ UNCHANGED <<last_response_file, last_call_file, related_files, pc, loc,
                   result, calls, pre, accepted, putTime, origin, alerts_file,
                   event, delivered>>

\* One turn of cleanup_task: asyncio.sleep(24 * 60 * 60) returns, then the
\* sweep of the ledger and the cleanup of the monitor run one after the
\* other without an await.  W holds the outcomes their writes may have.
CleanupTask(W) ==
    /\ ticks < MaxCycles
    /\ now' = now + SleepHours
    /\ ticks' = ticks + 1
    /\ \E wl \in W, ws \in W :
          /\ ~CleanupOldDataRaises(used_chars_file) \/ wl = "ok"
          /\ StatsWriteDue(stats_file) \/ ws = "ok"
          /\ faults' = faults + Failed(<<wl, ws>>)
          /\ faults' <= MaxFaults
          /\ used_chars_file' =
                IF CleanupOldDataRaises(used_chars_file)
                THEN used_chars_file
                ELSE Written(used_chars_file,
                             CleanupOldData(used_chars_file, now + SleepHours),
                             wl)
          /\ stats_file' =
                MonitorCleanupOldData(stats_file, now + SleepHours, ws)
    /\ UNCHANGED <<last_response_file, last_call_file, related_files, pc, loc,
                   result, calls, pre, accepted, putTime, origin, alerts_file,
                   event, delivered>>

\* Requests arrive during the first LowCycles days
Early == ticks < LowCycles

\* From the last of those days on the task finds no request under way
Quiet == ticks + 1 < LowCycles \/ AllIdle

-----------------------------------------------------------------------------
(* Serialized access: one request at a time, the sweep and the clock only
   between requests, every local write succeeds *)

Next ==
    \/ Tick
    \/ Cleanup(NoFailure)
    \/ \E p \in SerialProcs : Start(p)
    \/ \E p \in SerialProcs : GetTotal(p)
    \/ \E p \in SerialProcs : FetchPage(p)
    \/ \E p \in SerialProcs : FetchDetail(p, NoFailure)
    \/ \E p \in SerialProcs : ResolveRef(p, NoFailure)
    \/ \E p \in SerialProcs : Finish(p)
    \/ \E p \in SerialProcs : ReadCategory(p)
    \/ \E p \in SerialProcs : ReadAll(p)

Spec == Init /\ [][Next]_vars

(* Serialized access as above, with requests that may be cancelled while
   they wait for the catalog *)

NextCancel ==
    \/ Next
    \/ \E p \in SerialProcs : Cancel(p)

SpecCancel == Init /\ [][NextCancel]_vars

(* Serialized access within one day (the clock stands still), with local
   writes that may fail, at most MaxFaults of them *)

NextIO ==
    \/ Cleanup(WriteOutcomes)
    \/ \E p \in SerialProcs : Start(p)
    \/ \E p \in SerialProcs : GetTotal(p)
    \/ \E p \in SerialProcs : FetchPage(p)
    \/ \E p \in SerialProcs : FetchDetail(p, WriteOutcomes)
    \/ \E p \in SerialProcs : ResolveRef(p, WriteOutcomes)
    \/ \E p \in SerialProcs : Finish(p)
    \/ \E p \in SerialProcs : ReadCategory(p)
    \/ \E p \in SerialProcs : ReadAll(p)

SpecIO == Init /\ [][NextIO]_vars

(* Overlapping requests within one day: every request may take its next
   step whenever its await has been answered *)

NextOverlap ==
    \/ Cleanup(NoFailure)
    \/ \E p \in Procs : Start(p)
    \/ \E p \in Procs : GetTotal(p)
    \/ \E p \in Procs : FetchPage(p)
    \/ \E p \in Procs : FetchDetail(p, NoFailure)
    \/ \E p \in Procs : ResolveRef(p, NoFailure)
    \/ \E p \in Procs : Finish(p)

SpecOverlap == Init /\ [][NextOverlap]_vars

(* The monitor on its own: events of any kind, every write succeeds *)

NextMonitor ==
    \/ BetweenRuns /\ Tick
    \/ RecordEvent(NoFailure)

SpecMonitor == Init /\ [][NextMonitor]_vars

(* The service behind its logging middleware within one day: one request
   at a time, each handed to its client by dispatch; the writes of the
   monitor may fail, at most MaxFaults of them *)

NextService ==
    \/ \E p \in SerialProcs : UnderCap /\ Start(p)
    \/ \E p \in SerialProcs : GetTotal(p)
    \/ \E p \in SerialProcs : FetchPage(p)
    \/ \E p \in SerialProcs : FetchDetail(p, NoFailure)
    \/ \E p \in SerialProcs : ResolveRef(p, NoFailure)
    \/ \E p \in SerialProcs : UnderCap /\ ReadCategory(p)
    \/ \E p \in SerialProcs : UnderCap /\ ReadAll(p)
    \/ \E p \in SerialProcs : Dispatch(p, WriteOutcomes)

SpecService == Init /\ [][NextService]_vars

(* The service with its background task: the clock moves with the task's
   sleep only; requests are served one at a time through the middleware;
   the writes of the task may fail, at most MaxFaults of them *)

NextDaily ==
    \/ \E p \in SerialProcs : Early /\ UnderCap /\ Start(p)
    \/ \E p \in SerialProcs : Early /\ GetTotal(p)
    \/ \E p \in SerialProcs : Early /\ FetchPage(p)
    \/ \E p \in SerialProcs : Early /\ FetchDetail(p, NoFailure)
    \/ \E p \in SerialProcs : Early /\ ResolveRef(p, NoFailure)
    \/ \E p \in SerialProcs : Early /\ UnderCap /\ ReadCategory(p)
    \/ \E p \in SerialProcs : Early /\ Dispatch(p, NoFailure)
    \/ Quiet /\ CleanupTask(WriteOutcomes)

SpecDaily == Init /\ [][NextDaily]_vars

(* The service restarted on the ledger an earlier run left behind, one
   sleep of the task before the oldest entries reach the retention: the
   task takes its turns whatever the requests do, and its writes may fail,
   at most MaxFaults of them *)

AgedLedgers ==
    UNION {{<< m >> : m \in [{Str(id) : id \in ids} -> {Iso(0)}]} :
              ids \in SUBSET CatalogIds}

InitAged ==
    /\ ticks = RetentionDays - 1
    /\ now = SleepHours * (RetentionDays - 1)
    /\ used_chars_file \in AgedLedgers
    /\ last_response_file = Absent
    /\ last_call_file = Absent
    /\ related_files = [c \in CategorySet |-> Absent]
    /\ pc = [p \in Procs |-> "idle"]
    /\ loc = [p \in Procs |-> NoLocals]
    /\ result = [p \in Procs |-> NoResult]
    /\ calls = [p \in Procs |-> NoCalls]
    /\ pre = [p \in Procs |-> NoSnapshot]
    /\ accepted = [id \in CatalogIds |-> << >>]
    /\ putTime = Absent
    /\ origin = NoOrigin
    /\ faults = 0
    /\ stats_file = << InitialStats(SleepHours * (RetentionDays - 1)) >>
    /\ alerts_file = Absent
    /\ event = NoEvent
    /\ delivered = [p \in Procs |-> Absent]

Request ==
    \/ \E p \in SerialProcs : Start(p)
    \/ \E p \in SerialProcs : GetTotal(p)
    \/ \E p \in SerialProcs : FetchPage(p)
    \/ \E p \in SerialProcs : FetchDetail(p, NoFailure)
    \/ \E p \in SerialProcs : ResolveRef(p, NoFailure)
    \/ \E p \in SerialProcs : Finish(p)

\* Requests arrive during the first day after the restart
Arriving == ticks = RetentionDays - 1

\* The event loop has control: every request under way waits at an await
AtAwait == \A p \in Procs : pc[p] # "done"

NextAged ==
    \/ Arriving /\ Request
    \/ AtAwait /\ CleanupTask(WriteOutcomes)

SpecAged == InitAged /\ [][NextAged]_vars

\* The sleep of the task ends whatever the requests do, and the task runs
\* when the event loop next has control; a handler that has returned is
\* left at once.
FairSpecAged ==
    /\ SpecAged
    /\ SF_vars(AtAwait /\ CleanupTask(WriteOutcomes))
    /\ WF_vars(Arriving /\ \E p \in SerialProcs : Finish(p))

(* Serialized access within one day, started on a response cache in any
   state the data directory may hold it in: the answer missing, cut short,
   an empty JSON object or an envelope; the timestamp missing or fresh *)

PersistedResponses ==
    {Absent, Torn, << EmptyMap >>}
    \cup {SaveLastResponseFile(FinalResponse(CharacterInfo(id))) : id \in CatalogIds}

PersistedCalls == {Absent, SaveLastCallFile(0)}

InitCache ==
    /\ now = 0
    /\ ticks = 0
    /\ used_chars_file = Absent
    /\ last_response_file \in PersistedResponses
    /\ last_call_file \in PersistedCalls
    /\ related_files = [c \in CategorySet |-> Absent]
    /\ pc = [p \in Procs |-> "idle"]
    /\ loc = [p \in Procs |-> NoLocals]
    /\ result = [p \in Procs |-> NoResult]
    /\ calls = [p \in Procs |-> NoCalls]
    /\ pre = [p \in Procs |-> NoSnapshot]
    /\ accepted = [id \in CatalogIds |-> << >>]
    /\ putTime = Absent
    /\ origin = NoOrigin
    /\ faults = 0
    /\ stats_file = << InitialStats(0) >>
    /\ alerts_file = Absent
    /\ event = NoEvent
    /\ delivered = [p \in Procs |-> Absent]

NextCache ==
    \/ \E p \in SerialProcs : Start(p)
    \/ \E p \in SerialProcs : GetTotal(p)
    \/ \E p \in SerialProcs : FetchPage(p)
    \/ \E p \in SerialProcs : FetchDetail(p, NoFailure)
    \/ \E p \in SerialProcs : ResolveRef(p, NoFailure)
    \/ \E p \in SerialProcs : Finish(p)

SpecCache == InitCache /\ [][NextCache]_vars

(* Serialized access within one day of the restarted service, with local
   writes that may fail, at most MaxFaults of them *)

SpecAgedIO == InitAged /\ [][NextIO]_vars

(* Overlapping requests and the sweep within one day: every request may
   take its next step whenever its await has been answered, and the sweep
   of the ledger runs between those steps *)

\* storage.cleanup_old_data() run by the background task while requests
\* wait at their awaits: it reads, filters and rewrites the ledger without
\* an await of its own.
Sweep(W) ==
    /\ AtAwait
    /\ IF CleanupOldDataRaises(used_chars_file)
       THEN UNCHANGED <<used_chars_file, faults>>
       ELSE \E out \in W :
               /\ faults' = faults + Failed(<<out>>)
               /\ faults' <= MaxFaults
               /\ used_chars_file' =
                     Written(used_chars_file,
                             CleanupOldData(used_chars_file, now), out)
    /\ UNCHANGED <<mon, now, ticks, last_response_file, last_call_file,
                   related_files, pc, loc, result, calls, pre, accepted,
                   putTime, origin>>

NextOverlapSweep ==
    \/ Sweep(NoFailure)
    \/ \E p \in Procs : Start(p)
    \/ \E p \in Procs : GetTotal(p)
    \/ \E p \in Procs : FetchPage(p)
    \/ \E p \in Procs : FetchDetail(p, NoFailure)
    \/ \E p \in Procs : ResolveRef(p, NoFailure)
    \/ \E p \in Procs : Finish(p)

SpecOverlapSweep == Init /\ [][NextOverlapSweep]_vars

(* Serialized access within one day, started on a ledger file in any state
   the data directory may hold it in: missing, cut short, or a JSON object
   whose entries are timestamps or strings that are no timestamps *)

PersistedLedgers ==
    {Absent, Torn} \cup
    UNION {{<< m >> : m \in [{Str(id) : id \in ids} -> {Iso(0), Malformed}]} :
              ids \in SUBSET CatalogIds}

InitLedger ==
    /\ now = 0
    /\ ticks = 0
    /\ used_chars_file \in PersistedLedgers
    /\ last_response_file = Absent
    /\ last_call_file = Absent
    /\ related_files = [c \in CategorySet |-> Absent]
    /\ pc = [p \in Procs |-> "idle"]
    /\ loc = [p \in Procs |-> NoLocals]
    /\ result = [p \in Procs |-> NoResult]
    /\ calls = [p \in Procs |-> NoCalls]
    /\ pre = [p \in Procs |-> NoSnapshot]
    /\ accepted = [id \in CatalogIds |-> << >>]
    /\ putTime = Absent
    /\ origin = NoOrigin
    /\ faults = 0
    /\ stats_file = << InitialStats(0) >>
    /\ alerts_file = Absent
    /\ event = NoEvent
    /\ delivered = [p \in Procs |-> Absent]

NextLedger ==
    \/ Cleanup(NoFailure)
    \/ \E p \in SerialProcs : Start(p)
    \/ \E p \in SerialProcs : GetTotal(p)
    \/ \E p \in SerialProcs : FetchPage(p)
    \/ \E p \in SerialProcs : FetchDetail(p, NoFailure)
    \/ \E p \in SerialProcs : ResolveRef(p, NoFailure)
    \/ \E p \in SerialProcs : Finish(p)

SpecLedger == InitLedger /\ [][NextLedger]_vars

\* Every request of the catalog is answered, with a result or an error
RemoteCallReturns ==
    \E p \in SerialProcs :
        \/ GetTotal(p)
        \/ FetchPage(p)
        \/ FetchDetail(p, NoFailure)
        \/ ResolveRef(p, NoFailure)

FairSpecLedger == SpecLedger /\ WF_vars(RemoteCallReturns)

(* The ledger on its own, started on a ledger file in any state the data
   directory may hold it in: ids are recorded one after the other as the
   clock advances, and the read a record starts with may fail, at most
   MaxFaults times *)

\* storage.save_character_usage(character_id) called on its own; R holds
\* the outcomes its read may have.  The id is kept as the last candidate of
\* the caller.
Record(R) ==
    /\ AllIdle
    /\ \E character_id \in CatalogIds, rd \in R :
          /\ faults' = faults + (IF rd = "ok" THEN 0 ELSE 1)
          /\ faults' <= MaxFaults
          /\ used_chars_file' =
                SaveCharacterUsageRead(used_chars_file, character_id, now, rd)
          /\ loc' = [loc EXCEPT !["r1"].character_id = character_id]
    /\ UNCHANGED <<mon, now, ticks, last_response_file, last_call_file,
                   related_files, pc, result, calls, pre, accepted, putTime,
                   origin>>

NextRecord ==
    \/ Tick
    \/ Record(ReadOutcomes)

SpecRecord == InitLedger /\ [][NextRecord]_vars

-----------------------------------------------------------------------------
(* Vocabulary of the properties below *)

Ledger(file) == GetUsedCharacters(file)

\* An id the ledger check lets through: absent, or last selected at least
\* 30 * 6 days ago.
OffCooldownAt(file, id, t) ==
    \/ Str(id) \notin DOMAIN Ledger(file)
    \/ t - FromIso(Ledger(file)[Str(id)]) >= Days(30 * 6)

InAcceptedRange(id) == 1000000 <= id /\ id <= 2000000

\* The response cache was fresh when request p started.
PreFresh(p) ==
    /\ Exists(pre[p].call)
    /\ now - FromIso(pre[p].call[1].last_call) <= 24

\* Request p started with no prior call recorded and an empty ledger.
FromScratch(p) ==
    /\ ~Exists(pre[p].call)
    /\ DOMAIN Ledger(pre[p].ledger) = {}

\* Request p ran a selection in which no catalog call failed and at least
\* one candidate was drawn.
CatalogAnswered(p) ==
    /\ pc[p] = "done"
    /\ result[p].outcome # "cached"
    /\ result[p].cause \notin {"upstream", "internal"}
    /\ calls[p].page >= 1

\* C1: under serialized access, no entity id is recorded by two selections
\* whose acceptance times are less than the cooldown of 30 * 6 days apart.
C1_NoRepeatWithinCooldown ==
    \A id \in CatalogIds :
        \A i, j \in DOMAIN accepted[id] :
            i < j => accepted[id][j] - accepted[id][i] >= Days(30 * 6)

C1_Witness == \E id \in CatalogIds : Len(accepted[id]) >= 2

\* C2: a request that starts while the response cache is fresh ends at once
\* with the cached answer, has issued no catalog call, and leaves the
\* ledger, the cached answer, the last-call timestamp and the snapshot files
\* as they were.
C2_FreshCacheShortCircuit ==
    \A p \in Procs :
        (pc[p] # "idle" /\ PreFresh(p)) =>
            /\ pc[p] = "done"
            /\ result[p].outcome = "cached"
            /\ result[p].body = pre[p].response
            /\ calls[p] = NoCalls
            /\ Snapshot = pre[p]

C2_Witness ==
    \E p \in Procs :
        pc[p] = "done" /\ PreFresh(p) /\ result[p].outcome = "cached"

\* The selection's answer for the candidate it drew last, when that
\* candidate passed the ledger check.
SelectionOf(p, id) ==
    /\ result[p].outcome = "fresh"
    /\ result[p].body[1].data.id = id
    /\ used_chars_file = << MapPut(Ledger(pre[p].ledger), Str(id), Iso(now)) >>
    /\ last_response_file = result[p].body

\* The selector's statement; ranged: only for ids of the accepted range.
C3_Statement(ranged) ==
    \A p \in Procs :
        /\ pc[p] \in {"total", "page", "detail"} => Snapshot = pre[p]
        /\ (pc[p] = "page" /\ loc[p].attempts > 0) =>
               ~OffCooldownAt(pre[p].ledger, loc[p].character_id, now)
        /\ (/\ CatalogAnswered(p)
            /\ OffCooldownAt(pre[p].ledger, loc[p].character_id, now)
            /\ (ranged => InAcceptedRange(loc[p].character_id)))
           => SelectionOf(p, loc[p].character_id)

\* C3 (as amended): with a stale cache and every catalog call succeeding, a
\* selection returns the entity of the first drawn offset whose id passes
\* the ledger check, provided that id lies in [1000000, 2000000]; it adds
\* exactly that id to the ledger and records nothing for the candidates
\* rejected before it.
C3_FirstFreeCandidateAccepted == C3_Statement(TRUE)

\* C3 (as stated): the same for every id, such as the ids 5 to 8 of the
\* example.
C3_AnyIdAccepted == C3_Statement(FALSE)

C3_Witness ==
    \E p \in Procs :
        /\ CatalogAnswered(p)
        /\ result[p].outcome = "fresh"
        /\ loc[p].attempts > 0
        /\ DOMAIN Ledger(pre[p].ledger) # {}

\* C4: a selection in which every drawn candidate is on cooldown performs
\* exactly 50 page fetches and no detail fetch, then fails as exhausted,
\* with the ledger, the cache and the snapshot files as they were.
C4_ExhaustionAfterFiftyFetches ==
    \A p \in Procs :
        /\ pc[p] = "page" =>
               /\ calls[p].page = loc[p].attempts
               /\ loc[p].attempts < 50
               /\ calls[p].detail = 0
        /\ (pc[p] = "done" /\ calls[p].page >= 1
                /\ calls[p].page = loc[p].attempts) =>
               result[p].cause = "exhausted"
        /\ (pc[p] = "done" /\ result[p].cause = "exhausted") =>
               /\ result[p].outcome = "error"
               /\ calls[p].page = 50
               /\ calls[p].detail = 0
               /\ calls[p].ref = 0
               /\ Snapshot = pre[p]

C4_Witness ==
    \E p \in Procs :
        pc[p] = "done" /\ result[p].cause = "exhausted" /\ loc[p].total = 1

\* C5: exhausting the 50 attempts reaches the caller with status 503, and
\* an upstream catalog failure never reaches it with that status.
C5_ExhaustionIsUnavailable ==
    \A p \in Procs :
        pc[p] = "done" =>
            /\ result[p].cause = "exhausted" => result[p].status = 503
            /\ result[p].cause = "upstream" => result[p].status # 503

\* The end-to-end statement; ranged: only for ids of the accepted range,
\* lenient: a category whose resolution raised may lack its file.
C6_Statement(ranged, lenient) ==
    \A p \in Procs :
        (/\ CatalogAnswered(p)
         /\ FromScratch(p)
         /\ (ranged => InAcceptedRange(loc[p].character_id)))
        => /\ result[p].outcome = "fresh"
           /\ result[p].body[1].data.id = loc[p].character_id
           /\ calls[p].page = 1
           /\ Str(loc[p].character_id) \in DOMAIN Ledger(used_chars_file)
           /\ Exists(last_call_file)
           /\ now - FromIso(last_call_file[1].last_call) <= 24
           /\ ~ShouldMakeNewCall(last_call_file, now)
           /\ GetLastResponse(last_response_file) = result[p].body
           /\ \A c \in CategorySet :
                 \/ Exists(related_files[c])
                 \/ (lenient /\ c \in loc[p].raised_cats)

\* C6 (as amended): starting from no prior call and an empty ledger, when
\* the count, page and detail requests succeed and the first drawn offset
\* holds an id X in [1000000, 2000000], the selection returns an envelope
\* with data.id = X; afterwards the ledger contains X, the cache is fresh
\* and holds that envelope, and every snapshot category has its file except
\* those whose resolution raised as a whole.
C6_EndToEnd == C6_Statement(TRUE, TRUE)

\* C6 (as stated): for every id X, and with all four files present.
C6_EndToEndAnyId == C6_Statement(FALSE, FALSE)

C6_Witness ==
    \E p \in Procs :
        /\ CatalogAnswered(p)
        /\ FromScratch(p)
        /\ result[p].outcome = "fresh"
        /\ \E c \in CategorySet :
              Exists(related_files[c]) /\ related_files[c][1].items = << >>

\* C7: the ledger check with the default cooldown is true if and only if
\* the id is present and now - ledger[id] <= 30 * 6 days.
C7_CooldownIffWithinWindow ==
    \A id \in CatalogIds :
        IsCharacterRecentlyUsed(used_chars_file, id, DefaultMonths, now)
        <=> /\ Str(id) \in DOMAIN Ledger(used_chars_file)
            /\ now - FromIso(Ledger(used_chars_file)[Str(id)]) <= Days(30 * 6)

\* C8: an id recorded by a selection is on cooldown from then on, whatever
\* records, sweeps and selections follow, as long as the time elapsed since
\* the record does not exceed the cooldown.
C8_RecordedStaysOnCooldown ==
    \A id \in CatalogIds :
        (/\ Len(accepted[id]) > 0
         /\ now - accepted[id][Len(accepted[id])] <= Days(30 * 6))
        => IsCharacterRecentlyUsed(used_chars_file, id, DefaultMonths, now)

\* C9: the sweep removes exactly the entries older than 180 days, keeps
\* every other entry with its timestamp, and a second sweep at the same
\* time changes nothing; it also runs on an empty or missing ledger.
C9_PruneExact ==
    [][Cleanup(NoFailure) =>
          LET old == Ledger(used_chars_file)
              new == Ledger(used_chars_file')
          IN /\ Exists(used_chars_file')
             /\ DOMAIN new =
                   {k \in DOMAIN old : ~(now - FromIso(old[k]) > Days(180))}
             /\ \A k \in DOMAIN new : new[k] = old[k]
             /\ CleanupOldData(used_chars_file', now') = used_chars_file'
      ]_vars

\* An id was recorded and has been swept, while a younger entry was kept.
C9_Witness ==
    /\ AllIdle
    /\ \E id \in CatalogIds :
          Len(accepted[id]) > 0 /\ Str(id) \notin DOMAIN Ledger(used_chars_file)
    /\ DOMAIN Ledger(used_chars_file) # {}

\* C10: the cache is stale exactly when no call has been stamped or more
\* than 24 hours have passed since the last stamp.
C10_StaleIffOlderThanDay ==
    ShouldMakeNewCall(last_call_file, now)
    <=> (~Exists(putTime) \/ now - putTime[1] > 24)

C10_Witness ==
    /\ Exists(putTime)
    /\ now - putTime[1] = 24
    /\ ~ShouldMakeNewCall(last_call_file, now)

-----------------------------------------------------------------------------
(* The response cache *)

\* Request p has run save_last_response and its write of last_response.json
\* went through.
HasPut(p) ==
    /\ pc[p] \in {"related", "done"}
    /\ Exists(loc[p].final)
    /\ "response" \in loc[p].written

\* C11: once a request has stored its answer x, get_last_response returns
\* exactly x, whatever the cache held before; when last_response.json is
\* missing or cannot be parsed, get_last_response returns None.
C11_GetAfterPut ==
    /\ \A p \in SerialProcs :
          HasPut(p) => GetLastResponse(last_response_file) = loc[p].final
    /\ ~Parses(last_response_file) =>
          GetLastResponse(last_response_file) = Absent

\* An answer has replaced a different, readable one.
C11_Witness ==
    \E p \in SerialProcs :
       /\ HasPut(p)
       /\ Parses(pre[p].response)
       /\ pre[p].response # loc[p].final
       /\ GetLastResponse(last_response_file) = loc[p].final

\* C12: in every state the answer held by last_response.json and the
\* timestamp held by last_call.json were written by the same
\* save_last_response: the answer is never newer than its timestamp.
C12_AnswerAndStampSamePut ==
    Parses(last_response_file) =>
        /\ Parses(last_call_file)
        /\ origin.response = origin.call

-----------------------------------------------------------------------------
(* The related-item snapshot files *)

\* The simplified records of the references of category c that a request
\* with the local variables lc has resolved, in the order of the reference
\* list.
ResolvedOf(lc, c) ==
    LET refs == ItemsOf(lc.final[1].data, c)
        ks == SelectSeq([k \in 1..Len(refs) |-> k],
                        LAMBDA k : <<c, k>> \in lc.resolved)
    IN [j \in 1..Len(ks) |-> Simplified(c, MarvelData(refs[ks[j]]))]

ResolvedItems(p, c) == ResolvedOf(loc[p], c)

\* Request p has run a selection to its end, save_related_items included.
Replaced(p) == pc[p] = "done" /\ result[p].outcome = "fresh"

\* C13: when a selection has replaced the snapshot left by an earlier one,
\* every category whose resolution raised has no file, and every other
\* category has a file written by this selection that holds exactly the
\* records this selection resolved: nothing of the earlier snapshot is left.
C13_SecondSnapshotOnly ==
    \A p \in SerialProcs :
       Replaced(p) =>
          \A c \in CategorySet :
             IF c \in loc[p].raised_cats
             THEN ~Exists(related_files[c])
             ELSE /\ Parses(related_files[c])
                  /\ origin.related[c] = loc[p].put
                  /\ related_files[c][1].saved_at = Iso(loc[p].put[1].at)
                  /\ related_files[c][1].items = ResolvedItems(p, c)

\* The earlier snapshot held records in a category that raised this time,
\* and in a category that was written again.
C13_Witness ==
    \E p \in SerialProcs :
       /\ Replaced(p)
       /\ \E c \in loc[p].raised_cats :
             Parses(pre[p].related[c]) /\ Len(pre[p].related[c][1].items) > 0
       /\ \E c \in CategorySet \ loc[p].raised_cats :
             Parses(pre[p].related[c])

\* Category number j of request p's entity lists no reference.
NoReference(p, j) == Len(ItemsOf(loc[p].final[1].data, Categories[j])) = 0

\* C14: each answer to a reference request of save_related_items leaves the
\* request running.  A reference answered with None is skipped and the
\* category goes on; when the last reference of a category has been
\* answered its file holds the resolved records, an empty list when there
\* are none; a record that raises ends the category without a file; in
\* both cases the categories that follow are taken up: those without a
\* reference are written with an empty list at once.
C14_ResolutionFailures ==
    [][\A p \in SerialProcs :
          (pc[p] = "related" /\ calls'[p].ref = calls[p].ref + 1) =>
             LET i == loc[p].cat
                 c == Categories[i]
                 left == pc'[p] = "done" \/ loc'[p].cat > i
                 upto == IF pc'[p] = "done" THEN Len(Categories)
                         ELSE loc'[p].cat - 1
             IN /\ pc'[p] \in {"related", "done"}
                /\ result'[p].outcome # "error"
                /\ IF c \in loc'[p].raised_cats
                   THEN left /\ ~Exists(related_files'[c])
                   ELSE IF left
                        THEN /\ Parses(related_files'[c])
                             /\ related_files'[c][1].items
                                   = ResolvedOf(loc'[p], c)
                        ELSE /\ loc'[p].cat = i
                             /\ loc'[p].k = loc[p].k + 1
                             /\ related_files' = related_files
                /\ left =>
                      /\ \A j \in (i + 1)..upto :
                            /\ NoReference(p, j)
                            /\ related_files'[Categories[j]]
                                  = DetailedFile(<< >>, now)
                      /\ pc'[p] = "related" => ~NoReference(p, loc'[p].cat)
      ]_vars

\* A category with two references was written with the one record that
\* resolved; the other reference was answered with None.
C14_Witness ==
    \E p \in SerialProcs :
       /\ Replaced(p)
       /\ \E c \in CategorySet \ loc[p].raised_cats :
             /\ Len(ItemsOf(loc[p].final[1].data, c)) = 2
             /\ Len(related_files[c][1].items) = 1

\* No request stands between the deletion of the previous snapshot files
\* and the return of save_related_items.
NoReplaceInProgress == \A p \in Procs : pc[p] # "related"

\* C15: whenever no snapshot replace is in progress, the snapshot files
\* that are present were all written from the references of one entity,
\* also after overlapping selections have completed their replace.
C15_OneEntity ==
    NoReplaceInProgress =>
        \A c, d \in CategorySet :
            (Parses(related_files[c]) /\ Parses(related_files[d])) =>
                origin.related[c][1].id = origin.related[d][1].id

-----------------------------------------------------------------------------
(* Reading the snapshot files *)

\* The categories whose file exists but cannot be parsed
Unreadable == {c \in CategorySet : Exists(related_files[c]) /\ ~Parses(related_files[c])}

\* The mapping of the categories cs to the item lists their files hold
ItemLists(cs) == [c \in cs |-> related_files[c][1].items]

\* The statement as made: get_related_items answers with exactly the
\* categories whose file can be read, each with its item list; a missing or
\* unreadable file leaves only its own category out.
C16_ReadAllPerCategory ==
    GetRelatedItems(related_files)
        = ItemLists({c \in CategorySet : Parses(related_files[c])})

\* C16: get_related_items always answers with a mapping.  When every file
\* that exists can be parsed, the mapping holds exactly the categories
\* whose file exists, each with its item list (none when no file exists);
\* when one existing file cannot be parsed, the mapping is empty.  A
\* request for all snapshots that is answered carries that mapping.
C16_ReadAll ==
    /\ IF Unreadable = {}
       THEN GetRelatedItems(related_files)
               = ItemLists({c \in CategorySet : Exists(related_files[c])})
       ELSE DOMAIN GetRelatedItems(related_files) = {}
    /\ \A p \in SerialProcs :
          (pc[p] = "done" /\ loc[p].read = "all"
             /\ result[p].outcome = "snapshots") =>
                /\ Unreadable = {}
                /\ result[p].body[1].data
                      = ItemLists({c \in CategorySet : Exists(related_files[c])})

\* All snapshots were asked for while one file was cut short and another
\* one was readable.
C16_Witness ==
    \E p \in SerialProcs :
       /\ pc[p] = "done"
       /\ loc[p].read = "all"
       /\ Unreadable # {}
       /\ \E c \in CategorySet : Parses(related_files[c])
       /\ DOMAIN GetRelatedItems(related_files) = {}

\* C17: a request for one category's snapshot is answered with the stored
\* document when the file exists and with status 404 when it does not; a
\* request for all snapshots is answered with status 404 when there is no
\* snapshot data; a missing snapshot is never answered with status 500.
C17_AbsentIsNotFound ==
    \A p \in SerialProcs :
       (pc[p] = "done" /\ loc[p].read # "none") =>
          IF loc[p].read = "all"
          THEN (\A c \in CategorySet : ~Exists(related_files[c])) =>
                  result[p].status = 404
          ELSE IF Exists(related_files[loc[p].read])
               THEN /\ result[p].outcome = "snapshot"
                    /\ result[p].body = related_files[loc[p].read]
               ELSE result[p].status = 404

-----------------------------------------------------------------------------
(* Failures of the catalog *)

\* Request p was ended by a failing count or page request.
AbortedBeforeDetail(p) ==
    /\ pc[p] = "done"
    /\ result[p].cause = "upstream"
    /\ calls[p].detail = 0

\* C18: a selection whose count request fails ends with an upstream error
\* after that one request, and a selection whose page request fails ends
\* with an upstream error at that request: no request is issued again, no
\* page or detail request follows, and the ledger, the cached answer, its
\* timestamp and the snapshot files are as they were when the selection
\* started.
C18_CatalogFailureAborts ==
    \A p \in SerialProcs :
       /\ pc[p] = "total" => calls[p] = NoCalls
       /\ pc[p] = "page" =>
             calls[p] = [count |-> 1, page |-> loc[p].attempts,
                         detail |-> 0, ref |-> 0]
       /\ AbortedBeforeDetail(p) =>
             /\ result[p].outcome = "error"
             /\ result[p].body = Absent
             /\ result[p].raised # 200
             /\ Snapshot = pre[p]
             /\ calls[p].count = 1
             /\ calls[p].ref = 0
             /\ calls[p].page \in {0, loc[p].attempts + 1}
             /\ calls[p].page = 0 => loc[p] = NoLocals

\* A page request failed after an earlier candidate had been rejected,
\* with a ledger and a cached answer in place.
C18_Witness ==
    \E p \in SerialProcs :
       /\ AbortedBeforeDetail(p)
       /\ calls[p].page >= 2
       /\ Exists(pre[p].ledger)
       /\ Exists(pre[p].response)

\* C19: when the catalog answers a count, page or detail request with a
\* status other than 200, the failure handed to the caller of the selection
\* carries that status.
C19_UpstreamStatusPreserved ==
    \A p \in SerialProcs :
       (pc[p] = "done" /\ result[p].cause = "upstream"
          /\ result[p].raised # 0) =>
             result[p].status = result[p].raised

-----------------------------------------------------------------------------
(* The ledger file as found on disk *)

\* C20: whatever used_characters.json holds (nothing, a document that
\* cannot be parsed, or entries that are no timestamps), no selection ends
\* with a failure raised by the ledger check: such a ledger counts as
\* "not recently used" and the selection goes on.
C20_LedgerNeverFailsSelection ==
    \A p \in SerialProcs :
       pc[p] = "done" => result[p].cause # "ledger"

-----------------------------------------------------------------------------
(* The monitor's statistics and alerts *)

AlertsOf(file) == IF Parses(file) THEN file[1] ELSE << >>
Raises(alerts, type) == \E i \in DOMAIN alerts : alerts[i].type = type
CountOf(alerts, type) == Cardinality({i \in DOMAIN alerts : alerts[i].type = type})
EndsWith(s, t) ==
    Len(t) <= Len(s) /\ SubSeq(s, Len(s) - Len(t) + 1, Len(s)) = t

(* C22: every recorded event counts one request, and one failure when it
   did not succeed; it appends an error-rate alert to the alert list if and
   only if, with that event counted, failed requests are strictly more than
   a tenth of all requests (one failure in ten raises none). *)
C22_ErrorRateAlert ==
    [][RecordEvent(NoFailure) =>
          LET stats == stats_file'[1] IN
          /\ stats.total_requests = stats_file[1].total_requests + 1
          /\ stats.failed_requests =
                stats_file[1].failed_requests + (IF event'.success THEN 0 ELSE 1)
          /\ Raises(event'.alerts, "ERROR_RATE")
                <=> 10 * stats.failed_requests > stats.total_requests
          /\ CountOf(event'.alerts, "ERROR_RATE") <= 1
          /\ EndsWith(AlertsOf(alerts_file'), event'.alerts)]_vars

\* A successful event that raises the alert: two failures in eleven requests
C22_Witness ==
    /\ Parses(stats_file)
    /\ stats_file[1].total_requests = 11
    /\ stats_file[1].failed_requests = 2
    /\ event.success
    /\ Raises(event.alerts, "ERROR_RATE")
    /\ EndsWith(AlertsOf(alerts_file), << ErrorRateAlert(now) >>)

\* One failure in ten requests, the failure last: no alert
C22_AtThreshold ==
    /\ Parses(stats_file)
    /\ stats_file[1].total_requests = 10
    /\ stats_file[1].failed_requests = 1
    /\ ~event.success
    /\ event.alerts = << >>

(* C23: every recorded event adds one to the bucket of the current day and
   leaves the other days' buckets alone; it appends a rate-limit alert if
   and only if the current day's bucket, that event included, is above
   2000.  A bucket of another day, however full, raises nothing. *)
C23_RateLimitAlert ==
    [][RecordEvent(NoFailure) =>
          LET before == stats_file[1].daily_requests
              after == stats_file'[1].daily_requests
              today == Today(now)
          IN /\ DOMAIN after = DOMAIN before \cup {today}
             /\ after[today] = (IF today \in DOMAIN before
                                THEN before[today] ELSE 0) + 1
             /\ \A d \in DOMAIN before \ {today} : after[d] = before[d]
             /\ Raises(event'.alerts, "RATE_LIMIT")
                   <=> after[today] > RateLimitThreshold
             /\ CountOf(event'.alerts, "RATE_LIMIT") <= 1
             /\ EndsWith(AlertsOf(alerts_file'), event'.alerts)]_vars

\* The event that takes the day's bucket from 2000 to 2001
C23_Witness ==
    /\ Parses(stats_file)
    /\ Today(now) \in DOMAIN stats_file[1].daily_requests
    /\ stats_file[1].daily_requests[Today(now)] = RateLimitThreshold + 1
    /\ Raises(event.alerts, "RATE_LIMIT")
    /\ AlertsOf(alerts_file) = << RateLimitAlert(now) >>

\* An event on the day after a day of 2001 requests raises nothing
C23_OtherDay ==
    /\ Parses(stats_file)
    /\ \E d \in DOMAIN stats_file[1].daily_requests :
          /\ d # Today(now)
          /\ stats_file[1].daily_requests[d] > RateLimitThreshold
    /\ Today(now) \in DOMAIN stats_file[1].daily_requests
    /\ event.alerts = << >>

(* C24: the alert list only grows at its end and holds at most 100 entries:
   after every step it is the last 100 (or fewer) entries of the list before
   the step followed by the alerts the step raised; the entries kept are
   neither changed nor reordered. *)
C24_AlertsAppendOnly ==
    [][LET raised == IF RecordEvent(NoFailure) THEN event'.alerts ELSE << >>
           before == AlertsOf(alerts_file) \o raised
           after == AlertsOf(alerts_file')
       IN /\ Len(after) <= MaxAlerts
          /\ Len(after) = IF Len(before) <= MaxAlerts
                          THEN Len(before) ELSE MaxAlerts
          /\ \A i \in 1..Len(after) :
                after[i] = before[Len(before) - Len(after) + i]]_vars

\* A full list whose oldest entries have been dropped for newer ones of a
\* later day
C24_Witness ==
    /\ Len(AlertsOf(alerts_file)) = MaxAlerts
    /\ Parses(stats_file)
    /\ stats_file[1].failed_requests > MaxAlerts
    /\ AlertsOf(alerts_file)[1] # AlertsOf(alerts_file)[MaxAlerts]
    /\ Len(event.alerts) > 0

(* C30: a recorded event that succeeded and carries an id adds exactly one
   to the histogram entry of that id (an id not yet in the histogram starts
   from zero); an event that failed or carries no id leaves the histogram as
   it was; the entry of no other id ever changes. *)
C30_HistogramEntry ==
    [][RecordEvent(NoFailure) =>
          LET before == stats_file[1].most_requested_characters
              after == stats_file'[1].most_requested_characters
              id == event'.character_id
          IN IF event'.success /\ id # Absent
             THEN /\ DOMAIN after = DOMAIN before \cup {Str(id[1])}
                  /\ after[Str(id[1])] =
                        (IF Str(id[1]) \in DOMAIN before
                         THEN before[Str(id[1])] ELSE 0) + 1
                  /\ \A k \in DOMAIN before \ {Str(id[1])} :
                        after[k] = before[k]
             ELSE after = before]_vars

\* Three events with the same id, one of them failed: the entry stands at 2
C30_Witness ==
    /\ Parses(stats_file)
    /\ stats_file[1].total_requests = 3
    /\ stats_file[1].failed_requests = 1
    /\ event.success
    /\ event.character_id = << CatalogId(0) >>
    /\ stats_file[1].most_requested_characters =
          [k \in {Str(CatalogId(0))} |-> 2]

-----------------------------------------------------------------------------
(* The monitor behind the service *)

(* C21: whatever happens to the statistics and alert files, the middleware
   hands every client the response its handler returned, unchanged. *)
C21_MonitorNeverFailsRequest ==
    [][\A p \in Procs :
          pc[p] = "done" /\ pc'[p] = "idle"
             => delivered'[p] = << result[p] >>]_vars

-----------------------------------------------------------------------------
(* The commit of a selection *)

\* The detail request of p has been answered with the entity.
DetailAnswered(p) == pc[p] \in {"related", "done"} /\ Exists(loc[p].final)

\* Request p ran a selection that ended without an answer.
EndedWithoutAnswer(p) ==
    /\ pc[p] = "done"
    /\ loc[p].read = "none"
    /\ result[p].outcome \in {"error", "cancelled"}

(* C25: a selection commits nothing in part.  While it waits for the
   count, page or detail answer, and after it has ended on a failed detail
   request, on any other failure or on a cancellation, the ledger, the
   cached answer, its timestamp and the snapshot files are as they were when
   it started.  Once the detail request has been answered, the ledger
   record, the cache put with its timestamp and the replacement of the
   snapshot files have all been carried out for that entity. *)
C25_NoPartialCommit ==
    \A p \in SerialProcs :
       /\ pc[p] \in {"total", "page", "detail"} => Snapshot = pre[p]
       /\ EndedWithoutAnswer(p) => Snapshot = pre[p] /\ loc[p].put = Absent
       /\ DetailAnswered(p) =>
             LET put == loc[p].put[1] IN
             /\ loc[p].written = {"ledger", "response", "call"}
             /\ Str(put.id) \in DOMAIN Ledger(used_chars_file)
             /\ Ledger(used_chars_file)[Str(put.id)] = Iso(put.at)
             /\ \A k \in DOMAIN Ledger(pre[p].ledger) \ {Str(put.id)} :
                   Ledger(used_chars_file)[k] = Ledger(pre[p].ledger)[k]
             /\ last_response_file = loc[p].final
             /\ last_call_file = << [last_call |-> Iso(put.at)] >>
             /\ \A c \in CategorySet :
                   Exists(related_files[c]) => origin.related[c] = loc[p].put
             /\ pc[p] = "done" =>
                   \A c \in CategorySet \ loc[p].raised_cats :
                      Exists(related_files[c])

\* A detail request failed with a ledger, a cached answer and snapshot
\* files of an earlier selection in place.
C25_Witness ==
    \E p \in SerialProcs :
       /\ EndedWithoutAnswer(p)
       /\ calls[p].detail = 1
       /\ result[p].cause = "upstream"
       /\ Exists(pre[p].ledger)
       /\ Exists(pre[p].response)
       /\ \E c \in CategorySet : Exists(pre[p].related[c])

\* A request was cancelled after its candidate had passed the ledger check,
\* with a ledger and a cached answer in place.
C25_CancelledAtDetail ==
    \E p \in SerialProcs :
       /\ EndedWithoutAnswer(p)
       /\ result[p].outcome = "cancelled"
       /\ calls[p].page = loc[p].attempts + 1
       /\ Exists(pre[p].ledger)
       /\ Exists(pre[p].response)

\* A category of p's snapshot raised as a whole, or a reference p asked
\* for was answered with no record.
ResolutionFailed(p) ==
    \/ loc[p].raised_cats # {}
    \/ calls[p].ref > Cardinality(loc[p].resolved)

(* C26: failures while the related items are resolved undo nothing: from
   the first failed reference on, the ledger keeps the record of the
   selected entity, the cache keeps the envelope and its timestamp, and the
   selection ends by returning that envelope. *)
C26_ResolutionFailuresKeepCommit ==
    \A p \in SerialProcs :
       (DetailAnswered(p) /\ ResolutionFailed(p)) =>
          LET put == loc[p].put[1] IN
          /\ Str(put.id) \in DOMAIN Ledger(used_chars_file)
          /\ Ledger(used_chars_file)[Str(put.id)] = Iso(put.at)
          /\ GetLastResponse(last_response_file) = loc[p].final
          /\ ~ShouldMakeNewCall(last_call_file, now)
          /\ pc[p] = "done" =>
                /\ result[p] = Returned("fresh", loc[p].final[1])
                /\ result[p].body[1].data.id = put.id

\* A selection has returned after a category raised and a reference was
\* answered with no record.
C26_Witness ==
    \E p \in SerialProcs :
       /\ pc[p] = "done"
       /\ DetailAnswered(p)
       /\ loc[p].raised_cats # {}
       /\ calls[p].ref > Cardinality(loc[p].resolved) + 1
       /\ result[p].outcome = "fresh"

(* C27: no detail request is issued for an id outside [1000000, 2000000].
   A selection whose page request yields such an id ends at once with the
   validation failure of get_character_details, having issued no detail or
   reference request, with the ledger, the cached answer, its timestamp and
   the snapshot files as they were; and no selection ends that way for an
   id inside the range. *)
C27_OutOfRangeRejected ==
    \A p \in SerialProcs :
       /\ (pc[p] = "detail" \/ calls[p].detail > 0) =>
             InAcceptedRange(loc[p].character_id)
       /\ (/\ pc[p] = "done"
           /\ calls[p].page >= 1
           /\ result[p].cause # "upstream"
           /\ ~InAcceptedRange(loc[p].character_id))
          => /\ result[p].outcome = "error"
             /\ result[p].cause = "validation"
             /\ result[p].body = Absent
             /\ calls[p].detail = 0
             /\ calls[p].ref = 0
             /\ calls[p].page = loc[p].attempts + 1
             /\ Snapshot = pre[p]
             /\ Str(loc[p].character_id) \notin DOMAIN Ledger(used_chars_file)
       /\ (pc[p] = "done" /\ result[p].cause = "validation") =>
             ~InAcceptedRange(loc[p].character_id)

\* A page request yielded an id below the range after an earlier candidate
\* had been rejected, with a ledger and a cached answer in place.
C27_Witness ==
    \E p \in SerialProcs :
       /\ pc[p] = "done"
       /\ result[p].cause = "validation"
       /\ loc[p].character_id = MinCharacterId - 1
       /\ loc[p].attempts > 0
       /\ Exists(pre[p].ledger)
       /\ Exists(pre[p].response)

-----------------------------------------------------------------------------
(* Overlapping selections *)

\* Requests p and q have both been answered with the same entity.
SameEntity(p, q) ==
    /\ p # q
    /\ DetailAnswered(p)
    /\ DetailAnswered(q)
    /\ loc[p].put[1].id = loc[q].put[1].id

(* C28: nothing but the cooldown check stands between overlapping
   selections.  A request started on a stale cache goes on to the catalog
   whatever the other request does; it takes a candidate when the ledger,
   as it stands at the page answer, does not hold it on cooldown, and this
   check records nothing; the ledger record is made at the detail answer
   without another check.  (The witness is the interleaving in which both
   requests take and return the same entity at the same time.) *)
C28_CheckThenRecord ==
    [][\A p \in Procs :
          /\ (pc[p] = "idle" /\ pc'[p] = "total") =>
                \/ ShouldMakeNewCall(last_call_file, now)
                \/ ~Truthy(GetLastResponse(last_response_file))
          /\ (pc[p] = "page" /\ pc'[p] = "detail") =>
                /\ OffCooldownAt(used_chars_file, loc'[p].character_id, now)
                /\ UNCHANGED files
          /\ (pc[p] = "detail" /\ pc'[p] \in {"related", "done"}
                /\ result'[p].cause # "upstream") =>
                /\ Ledger(used_chars_file')[Str(loc[p].character_id)] = Iso(now)
                /\ loc'[p].put[1].id = loc[p].character_id]_vars

\* Both requests have returned the same entity, recorded twice within its
\* cooldown.
C28_Witness ==
    \E p, q \in Procs :
       /\ SameEntity(p, q)
       /\ pc[p] = "done" /\ pc[q] = "done"
       /\ result[p].outcome = "fresh" /\ result[q].outcome = "fresh"
       /\ result[p].body[1].data.id = result[q].body[1].data.id
       /\ ~Exists(pre[p].call) /\ ~Exists(pre[q].call)
       /\ LET times == accepted[loc[p].put[1].id] IN
          /\ Len(times) >= 2
          /\ times[2] - times[1] < Days(30 * DefaultMonths)

\* No selection is under way.
AllFinished == \A p \in Procs : pc[p] \in {"idle", "done"}

(* C29: whenever no selection is under way, after any interleaving of two
   overlapping selections, the cached answer and the timestamp of the last
   call were written by one and the same selection; the timestamp is that
   selection's, the cached answer is the envelope it returned, and the id
   of its entity is in the ledger. *)
C29_LastWriterWins ==
    (AllFinished /\ (Exists(last_response_file) \/ Exists(last_call_file))) =>
       /\ origin.response # Absent
       /\ origin.call = origin.response
       /\ LET put == origin.response[1] IN
          /\ Str(put.id) \in DOMAIN Ledger(used_chars_file)
          /\ last_call_file = << [last_call |-> Iso(put.at)] >>
          /\ Parses(last_response_file)
          /\ (pc[put.by] = "done" /\ loc[put.by].put = origin.response) =>
                /\ last_response_file = loc[put.by].final
                /\ result[put.by].body = last_response_file

\* Two overlapping selections have returned different entities; the cache
\* holds the answer of the one that wrote last.
C29_Witness ==
    \E p, q \in Procs :
       /\ pc[p] = "done" /\ pc[q] = "done"
       /\ DetailAnswered(p) /\ DetailAnswered(q)
       /\ loc[p].put[1].id # loc[q].put[1].id
       /\ origin.response = loc[q].put
       /\ origin.call = loc[q].put
       /\ last_response_file = loc[q].final
       /\ last_response_file # loc[p].final

-----------------------------------------------------------------------------
(* The histogram behind the service *)

\* The histogram of the statistics file, empty when it cannot be read
Histogram(file) ==
    IF Parses(file) THEN file[1].most_requested_characters ELSE EmptyCounts

(* C31: when the middleware hands a client the answer of a selection that
   returned entity X, and the statistics are written, the histogram entry of
   X is one higher than it was before the request. *)
C31_SelectionCounted ==
    [][\A p \in Procs :
          (/\ pc[p] = "done" /\ pc'[p] = "idle"
           /\ loc[p].read = "none"
           /\ result[p].status = 200
           /\ Parses(stats_file) /\ Parses(stats_file')
           /\ stats_file'[1].total_requests = stats_file[1].total_requests + 1)
          => LET X == Str(result[p].body[1].data.id) IN
             /\ X \in DOMAIN Histogram(stats_file')
             /\ Histogram(stats_file')[X] =
                   (IF X \in DOMAIN Histogram(stats_file)
                    THEN Histogram(stats_file)[X] ELSE 0) + 1]_vars

-----------------------------------------------------------------------------
(* The monitor's prune *)

\* The entries of an error log that are not older than seven days at time t
NotOlderThanAWeek(errors, t) ==
    SelectSeq(errors, LAMBDA e : t - FromIso(e.timestamp) <= 7 * 24)

\* The day buckets that are not dated more than 30 days before the day of t
NotOlderThanAMonth(daily, t) ==
    {d \in DOMAIN daily : (t \div 24) - d[2] <= 30}

\* A turn of the background task in which no write fails and the statistics
\* can be read
PruneStep ==
    /\ ticks' = ticks + 1
    /\ faults' = faults
    /\ Parses(stats_file)
    /\ Parses(stats_file')

\* C32: the monitor's prune drops exactly the day buckets dated more than 30
\* days before now and exactly the error-log entries older than 7 days; the
\* buckets and entries it keeps are unchanged, and so are the alert list,
\* the per-id histogram and the total, successful and failed counters.
C32_MonitorPruneExact ==
    [][PruneStep =>
          /\ DOMAIN stats_file'[1].daily_requests =
                NotOlderThanAMonth(stats_file[1].daily_requests, now')
          /\ \A d \in DOMAIN stats_file'[1].daily_requests :
                stats_file'[1].daily_requests[d] = stats_file[1].daily_requests[d]
          /\ stats_file'[1].errors = NotOlderThanAWeek(stats_file[1].errors, now')
          /\ alerts_file' = alerts_file
          /\ Histogram(stats_file') = Histogram(stats_file)
          /\ stats_file'[1].total_requests = stats_file[1].total_requests
          /\ stats_file'[1].successful_requests = stats_file[1].successful_requests
          /\ stats_file'[1].failed_requests = stats_file[1].failed_requests]_vars

-----------------------------------------------------------------------------
(* A fresh timestamp without an answer *)

\* Request p started on a fresh timestamp whose answer was missing, could
\* not be parsed or was empty.
FreshWithoutAnswer(p) ==
    /\ pc[p] # "idle"
    /\ PreFresh(p)
    /\ ~Parses(pre[p].response) \/ pre[p].response = << EmptyMap >>

\* C33: a request that finds the last-call timestamp fresh while the cached
\* answer is missing, unreadable or empty does not fail on the read and
\* returns no cached or empty answer: it runs a full new selection, which
\* starts with the count request and ends as a selection on a stale cache
\* does, a fresh envelope being stored as the new cached answer.
C33_UnreadableCacheIsStale ==
    \A p \in Procs :
        FreshWithoutAnswer(p) =>
            /\ pc[p] \in {"total", "page", "detail", "related", "done"}
            /\ pc[p] # "total" => calls[p].count = 1
            /\ pc[p] = "done" =>
                  /\ result[p].outcome \in {"fresh", "error"}
                  /\ result[p].outcome = "error" =>
                        result[p].cause \in {"upstream", "internal",
                                             "validation", "exhausted"}
                  /\ result[p].outcome = "fresh" =>
                        /\ Truthy(result[p].body)
                        /\ result[p].body[1].data.id = loc[p].character_id
                        /\ last_response_file = result[p].body
                        /\ Str(loc[p].character_id)
                              \in DOMAIN Ledger(used_chars_file)

C33_Witness ==
    \E p \in Procs :
        /\ FreshWithoutAnswer(p)
        /\ pc[p] = "done"
        /\ result[p].outcome = "fresh"
        /\ pre[p].response \in {Torn, << EmptyMap >>}

-----------------------------------------------------------------------------
(* A record that cannot be persisted *)

\* The detail request of p was answered and the write of the ledger that
\* records the accepted id failed, as the only write of the selection.
RecordFailed(p) ==
    /\ DetailAnswered(p)
    /\ "ledger" \notin loc[p].written
    /\ faults = 1

\* C34: when persisting the ledger fails during record(id) of an accepted
\* selection, the failure is swallowed: the response and its timestamp are
\* stored in the cache, the snapshot replace runs, the request returns the
\* envelope, and the ledger keeps the entries it had before.
C34_RecordFailureSwallowed ==
    \A p \in Procs :
        RecordFailed(p) =>
            /\ last_response_file = loc[p].final
            /\ last_call_file = SaveLastCallFile(now)
            /\ Ledger(used_chars_file) = Ledger(pre[p].ledger)
            /\ pc[p] = "done" =>
                  /\ result[p] = Returned("fresh", loc[p].final[1])
                  /\ \A c \in CategorySet :
                        Exists(related_files[c]) \/ c \in loc[p].raised_cats

-----------------------------------------------------------------------------
(* The background task *)

\* The ledger holds an entry of id that is older than the retention.
Overage(id) ==
    /\ Str(id) \in DOMAIN Ledger(used_chars_file)
    /\ now - FromIso(Ledger(used_chars_file)[Str(id)]) > 180 * 24

\* A turn of the task in which the sweep of the ledger did not replace the
\* file and nothing else failed
LedgerPruneFailed ==
    /\ ticks' = ticks + 1
    /\ faults' = faults + 1
    /\ used_chars_file' # CleanupOldData(used_chars_file, now')
    /\ Parses(stats_file)

\* C35: the background task takes one turn per day whatever the requests
\* do and goes on taking turns: every ledger entry older than the retention
\* is removed in the end (from some turn on the ledger holds none, and the
\* task has taken every turn it is followed for), and a turn whose ledger
\* prune fails still prunes the monitor and is followed by the later turns.
C35_PruningKeepsRunning ==
    /\ [][ticks' # ticks => ticks' = ticks + 1 /\ now' = now + 24]_vars
    /\ [][LedgerPruneFailed =>
             /\ Parses(stats_file')
             /\ stats_file'[1].last_cleanup = Iso(now')]_vars
    /\ <>[](ticks = MaxCycles /\ \A id \in CatalogIds : ~Overage(id))

C35_Witness ==
    \E id \in CatalogIds :
        /\ Overage(id)
        /\ faults = 1
        /\ Parses(stats_file)
        /\ stats_file[1].last_cleanup = Iso(now)
        /\ \E p \in Procs : pc[p] \notin {"idle", "done"}

-----------------------------------------------------------------------------
(* The sweep and the cooldown *)

\* C36: the sweep of the ledger removes no entry the ledger check still
\* reports as on cooldown: every id that is on cooldown before a sweep is
\* in the ledger after it, with the same timestamp.
C36_PruneSparesCooldown ==
    [][Cleanup(NoFailure) =>
          \A id \in CatalogIds :
              IsCharacterRecentlyUsed(used_chars_file, id, DefaultMonths, now)
              => /\ Str(id) \in DOMAIN Ledger(used_chars_file')
                 /\ Ledger(used_chars_file')[Str(id)]
                       = Ledger(used_chars_file)[Str(id)]
                 /\ IsCharacterRecentlyUsed(used_chars_file', id,
                                            DefaultMonths, now')]_vars

\* A sweep has removed the entry of one id and left one that is on cooldown
\* since before the removed entry's last day.
C36_Witness ==
    /\ AllIdle
    /\ \E id, gone \in CatalogIds :
          /\ IsCharacterRecentlyUsed(used_chars_file, id, DefaultMonths, now)
          /\ now - FromIso(Ledger(used_chars_file)[Str(id)]) >= 2 * 24
          /\ Len(accepted[gone]) > 0
          /\ Str(gone) \notin DOMAIN Ledger(used_chars_file)

-----------------------------------------------------------------------------
(* One selection a day *)

\* The acceptances on record: the id and its position in the id's list
Acceptances == {<<id, i>> : id \in CatalogIds, i \in 1..MaxAccepted}
                  \cap {a \in CatalogIds \X (1..MaxAccepted) :
                           a[2] <= Len(accepted[a[1]])}

AcceptedAt(a) == accepted[a[1]][a[2]]

\* Request p is under way or answered, has recorded nothing itself, and the
\* last selection that recorded an id did so no more than 24 hours ago.
WithinDayOfSelection(p) ==
    /\ pc[p] # "idle"
    /\ loc[p].read = "none"
    /\ ~Exists(loc[p].put)
    /\ Exists(putTime)
    /\ now - putTime[1] <= 24

\* C37: under serialized access without persistence failure any two
\* selections that recorded an id are more than 24 hours apart, and every
\* request that arrives within 24 hours after such a selection is answered
\* at once from the cache with the envelope of that selection.
C37_OneSelectionPerDay ==
    /\ \A a, b \in Acceptances :
          a # b => \/ AcceptedAt(a) - AcceptedAt(b) > 24
                   \/ AcceptedAt(b) - AcceptedAt(a) > 24
    /\ \A p \in Procs :
          WithinDayOfSelection(p) =>
             /\ pc[p] = "done"
             /\ result[p] = Returned("cached", last_response_file[1])
             /\ calls[p] = NoCalls
             /\ origin.response[1].at = putTime[1]
             /\ result[p].body[1].data.id = origin.response[1].id

C37_Witness ==
    /\ \E p \in Procs :
          /\ WithinDayOfSelection(p)
          /\ now - putTime[1] = 24
          /\ result[p].outcome = "cached"
    /\ Cardinality(Acceptances) >= 2

-----------------------------------------------------------------------------
(* The frame of a record *)

\* C38: record(id) sets the entry of id to the current time, one timestamp
\* per id, and leaves every other id of the persisted ledger in the ledger
\* with its timestamp unchanged, also when reading the existing ledger
\* fails.
C38_RecordChangesOneEntry ==
    [][ticks' = ticks =>
          LET id == loc'["r1"].character_id
              old == Ledger(used_chars_file)
              new == Ledger(used_chars_file')
          IN /\ Parses(used_chars_file')
             /\ Str(id) \in DOMAIN new
             /\ new[Str(id)] = Iso(now)
             /\ \A k \in DOMAIN old \ {Str(id)} :
                   k \in DOMAIN new /\ new[k] = old[k]
             /\ DOMAIN new \subseteq DOMAIN old \cup {Str(id)}]_vars

-----------------------------------------------------------------------------
(* Records and sweeps that interleave *)

\* C39: under cooperative interleaving no record of the ledger is lost:
\* whatever selections overlap and whenever the sweep runs between their
\* awaits, every id a selection has accepted is in the ledger with the time
\* of its last acceptance, in every state and so after all of them have
\* completed.
C39_NoLostRecord ==
    /\ \A id \in CatalogIds :
          Len(accepted[id]) > 0 =>
             /\ Str(id) \in DOMAIN Ledger(used_chars_file)
             /\ Ledger(used_chars_file)[Str(id)]
                   = Iso(accepted[id][Len(accepted[id])])
    /\ \A p \in Procs :
          Exists(loc[p].put) =>
             Str(loc[p].put[1].id) \in DOMAIN Ledger(used_chars_file)

\* Two overlapping selections have completed with different ids; the sweep
\* ran after the first had started and before it recorded its id, since
\* the second started on the empty ledger file the sweep wrote.
C39_Witness ==
    \E p, q \in Procs :
        /\ p # q
        /\ pc[p] = "done" /\ pc[q] = "done"
        /\ Exists(loc[p].put) /\ Exists(loc[q].put)
        /\ loc[p].put[1].id # loc[q].put[1].id
        /\ pre[p].ledger = Absent
        /\ pre[q].ledger = << EmptyMap >>
        /\ DOMAIN Ledger(used_chars_file)
              = {Str(loc[p].put[1].id), Str(loc[q].put[1].id)}

-----------------------------------------------------------------------------
(* Termination and resources of a selection *)

\* The fetches and attempts of request p stay within the retry bound.
WithinRetryBound(p) ==
    /\ loc[p].attempts <= 50
    /\ calls[p].page <= 50
    /\ calls[p].detail <= 1
    /\ calls[p].count <= 1

\* Request p has ended in one of the four ways a selection may end.
EndsAsSelection(p) ==
    \/ result[p].outcome = "cached"
    \/ result[p].outcome = "fresh"
    \/ /\ result[p].outcome = "error"
       /\ result[p].cause \in {"upstream", "validation", "exhausted"}

\* Every selection request whose remote calls return comes to an end.
SelectionsTerminate ==
    \A p \in SerialProcs : (pc[p] \notin {"idle", "done"}) ~> (pc[p] = "done")

\* C40: provided every remote call returns, a selection request terminates,
\* with the cached answer, a fresh envelope, an upstream or validation
\* error, or the exhaustion of its retries; it issues at most 50 page
\* fetches and one detail fetch, and its attempt counter stays at or below
\* 50.
C40_SelectionTerminates ==
    /\ SelectionsTerminate
    /\ [](\A p \in Procs :
             /\ WithinRetryBound(p)
             /\ pc[p] = "done" => EndsAsSelection(p))

\* The same without the list of endings
C40_TerminatesWithinBound ==
    /\ SelectionsTerminate
    /\ [](\A p \in Procs : WithinRetryBound(p))

====
